---- MODULE Spec2Model ----
(***************************************************************************)
(* A state-machine model of the Game Boy emulator: the LR35902 CPU         *)
(* (cpu.cpp, cpu_instructions.cpp, cpu_registers.cpp), the memory bus      *)
(* (memory.cpp), the ROM-only cartridge (cartridge.cpp), the timer         *)
(* registers (timer.cpp) and the PPU mode machine (gpu.cpp), as wired by   *)
(* init_system in main.cpp.                                                *)
(*                                                                         *)
(* Numbers written \hXX are hexadecimal, as in the source.  All registers  *)
(* keep their C++ width: uint8_t values are reduced modulo 256 and         *)
(* uint16_t values modulo 65536 wherever the source can overflow.          *)
(*                                                                         *)
(* Not modelled: pixel rendering (frame buffer, pixel FIFO, OAM scan       *)
(* result), SDL, logging, and the instructions that no modelled ROM image  *)
(* executes.  None of them writes a register the properties read.          *)
(***************************************************************************)
EXTENDS Integers, Sequences, FiniteSets, TLC

VARIABLES
    cart,    \* Cartridge with its ROMOnly controller: ROM image, RAM latch
    mem,     \* MemoryBus: vram, wram, oam, io_regs, hram, ie_register, joypad
    timer,   \* Timer registers as seen through MemoryBus::timer
    cpu,     \* CPU: registers, ime, halted, stopped, cycles, pending_cycles
    gpu,     \* GPU: current_mode, mode_cycles, frame_counter
    obs,     \* history: the last operation and what it saw before it ran
    frame,   \* history of a PPU-only run: cycles fed, VBlank requests, LY
    drv      \* the outer driver: the Timer it ticks, cycles handed out so far

vars == <<cart, mem, timer, cpu, gpu, obs, frame, drv>>

----------------------------------------------------------------------------
(* Bounds of the model                                                     *)

\* CPU::tick is not called once the cycle counter has reached this value.
MaxCycles == 20

----------------------------------------------------------------------------
(* Fixed-width arithmetic                                                  *)

U8(x) == x % 256

U16(x) == x % 65536

Bit(x, i) == (x \div (2 ^ i)) % 2

\* a & b on bytes.  The operands are bound once (x, y), so that an operand
\* that is itself a long expression is computed a single time.
BitAnd(a, b) ==
    LET And(x, y) ==
            LET f[i \in 0..8] ==
                    IF i = 8 THEN 0
                    ELSE (2 ^ i) * Bit(x, i) * Bit(y, i) + f[i + 1]
            IN f[0]
    IN CHOOSE r \in { And(x, y) : x \in {a}, y \in {b} } : TRUE

\* a | b on bytes
BitOr(a, b) ==
    CHOOSE r \in { x + y - BitAnd(x, y) : x \in {a}, y \in {b} } : TRUE

\* a & ~b on bytes
BitClear(a, b) ==
    CHOOSE r \in { x - BitAnd(x, y) : x \in {a}, y \in {b} } : TRUE

\* static_cast<int8_t>(x)
Int8(x) == IF x >= 128 THEN x - 256 ELSE x

isInRange(addr, lo, hi) == addr >= lo /\ addr <= hi

\* An array kept sparsely: the cells never written hold the fill value 0.
Get(arr, i) == IF i \in DOMAIN arr THEN arr[i] ELSE 0

Put(arr, i, v) == [j \in (DOMAIN arr) \cup {i} |-> IF j = i THEN v ELSE arr[j]]

----------------------------------------------------------------------------
(* Register addresses (memory.cpp, main.cpp)                               *)

P1_REGISTER == \hFF00
DIV_REGISTER == \hFF04
TIMA_REGISTER == \hFF05
TMA_REGISTER == \hFF06
TAC_REGISTER == \hFF07
IF_REGISTER == \hFF0F
LCDC_REG == \hFF40
STAT_REG == \hFF41
SCX_REG == \hFF43
LY_REG == \hFF44
LYC_REG == \hFF45
DMA_REG == \hFF46
WY_REG == \hFF4A
WX_REG == \hFF4B
IO_REGISTERS_START == \hFF00
IO_REGISTERS_END == \hFF7F
HRAM_START == \hFF80
HRAM_END == \hFFFE
IE_REGISTER == \hFFFF

----------------------------------------------------------------------------
(* Cartridge: a 32 KiB ROM-only image without RAM.  The image is zero      *)
(* (NOP) everywhere except for the program placed at the entry point.      *)

EntryPoint == \h0100

RomSize == \h8000

Programs ==
    [ add     |-> << \h3E, \h05, \hC6, \h03, \h00 >>,  \* LD A,5; ADD A,3; NOP
      halt    |-> << \h76 >>,                          \* HALT
      jrnz    |-> << \h20, \h00, \hC0 >>,              \* JR NZ,r8; RET NZ
      pushpop |-> << \hF5, \h00, \hF1 >>,              \* PUSH AF; POP AF
      cb      |-> << \hCB, \h00, \h00 >>,              \* RLC B
      \* five of the opcodes the table marks ERR, one every second byte
      err     |-> << \hD3, \h00, \hDB, \h00, \hDD, \h00, \hE3, \h00, \hFD >>,
      ei      |-> << \hFB, \h00, \h00 >>,              \* EI; NOP
      rst00   |-> << \hC7 >>,                          \* RST 00h
      rst08   |-> << \hCF >>,                          \* RST 08h
      rst10   |-> << \hD7 >>,                          \* RST 10h
      rst18   |-> << \hDF >>,                          \* RST 18h
      rst20   |-> << \hE7 >>,                          \* RST 20h
      rst28   |-> << \hEF >>,                          \* RST 28h
      rst30   |-> << \hF7 >>,                          \* RST 30h
      rst38   |-> << \hFF >>,                          \* RST 38h
      ldi_hl  |-> << \h22 >>,                          \* LD (HL+),A
      ldd_hl  |-> << \h32 >>,                          \* LD (HL-),A
      ldi_a   |-> << \h2A >>,                          \* LD A,(HL+)
      ldd_a   |-> << \h3A >> ]                         \* LD A,(HL-)

\* The images of the single-instruction scenarios
InstrRomNames ==
    { "rst00", "rst08", "rst10", "rst18", "rst20", "rst28", "rst30", "rst38",
      "ldi_hl", "ldd_hl", "ldi_a", "ldd_a" }

RomNames == DOMAIN Programs \ InstrRomNames

RomByte(rom, addr) ==
    LET p == Programs[rom]
    IN IF addr >= EntryPoint /\ addr < EntryPoint + Len(p)
       THEN p[addr - EntryPoint + 1]
       ELSE 0

\* ROMOnly::read with rom.size() = RomSize and ram.size() = 0
CartRead(c, addr) ==
    IF addr <= \h7FFF
    THEN IF addr < RomSize THEN RomByte(c.rom, addr) ELSE \hFF
    ELSE \hFF

\* ROMOnly::write: only the RAM-enable latch can change
CartWrite(c, addr, value) ==
    IF addr <= \h1FFF
    THEN [c EXCEPT !.ram_enabled = (BitAnd(value, \h0F) = \h0A)]
    ELSE c

----------------------------------------------------------------------------
(* Banked cartridges (cartridge.cpp): MBC1, MBC2, MBC3 and MBC5 as          *)
(* Cartridge::createMBC constructs them.  A controller value c holds the    *)
(* fields of all four classes; each class reads only its own.  The ROM      *)
(* image is the one whose byte at offset a is RomImage(a), so that every    *)
(* bank and every offset in a bank can be told apart.  RAM starts filled    *)
(* with 0xFF (Cartridge::initializeRAM) and is kept sparsely.               *)

RomImage(a) == (3 * (a \div \h4000) + 7 * (a % \h4000) + 1) % 256

\* rom[rom_addr] behind the size test every read makes
RomAt(c, rom_addr) == IF rom_addr < c.rom_size THEN RomImage(rom_addr) ELSE \hFF

RamAt(c, ram_addr) == IF ram_addr \in DOMAIN c.ram THEN c.ram[ram_addr] ELSE \hFF

\* The constructors MBC1::MBC1, MBC2::MBC2, MBC3::MBC3, MBC5::MBC5 with the
\* arguments createMBC passes: multicart is false; `rtc` and `rumble` follow
\* the cartridge type.  MBC2 has 512 bytes of RAM, the others 32 KiB here.
MbcCtor(kind, rom_size, rtc, rumble) ==
    [ kind |-> kind, rom_size |-> rom_size,
      ram_size |-> IF kind = "MBC2" THEN 512 ELSE \h8000,
      ram |-> <<>>, ram_enabled |-> FALSE, rom_bank |-> 1, ram_bank |-> 0,
      mode_select |-> FALSE, multicart |-> FALSE, rumble |-> rumble,
      rtc |-> rtc, rtc_latch |-> FALSE,
      rtc_regs   |-> [s |-> 0, m |-> 0, h |-> 0, dl |-> 0, dh |-> 0],
      latch_regs |-> [s |-> 0, m |-> 0, h |-> 0, dl |-> 0, dh |-> 0] ]

\* MBC1::getRomBankStart
getRomBankStart(c) ==
    IF c.multicart
    THEN LET effective_rom_bank == c.rom_bank % 16
             bank == c.ram_bank * 16 + effective_rom_bank
         IN (IF effective_rom_bank = 0 THEN bank + 1 ELSE bank) * \h4000
    ELSE LET bank == c.ram_bank * 32 + c.rom_bank
         IN (IF bank % 32 = 0 THEN bank + 1 ELSE bank) * \h4000

\* MBC1::getRamBankStart
getRamBankStart(c) ==
    IF c.mode_select /\ c.ram_size > \h2000 THEN c.ram_bank * \h2000 ELSE 0

\* The RAM index MBC1 uses for an address in 0xA000-0xBFFF
Mbc1RamAddr(c, addr) ==
    IF c.mode_select THEN getRamBankStart(c) + (addr - \hA000)
    ELSE addr - \hA000

\* An MBC1 that applies the upper register to 0x0000-0x3FFF in both modes
Mbc1ReadIgnoresMode(c, addr) ==
    IF addr <= \h3FFF
        THEN RomAt(c, c.ram_bank * \h80000 + (addr % \h4000))
    ELSE IF isInRange(addr, \h4000, \h7FFF)
        THEN RomAt(c, getRomBankStart(c) + (addr - \h4000))
    ELSE \hFF

\* MBC1::read
Mbc1Read(c, addr) ==
    IF addr <= \h3FFF THEN
        RomAt(c, IF c.mode_select
                 THEN (IF c.multicart THEN c.ram_bank * \h40000
                       ELSE c.ram_bank * \h80000) + (addr % \h4000)
                 ELSE addr)
    ELSE IF isInRange(addr, \h4000, \h7FFF)
        THEN RomAt(c, getRomBankStart(c) + (addr - \h4000))
    ELSE IF isInRange(addr, \hA000, \hBFFF) THEN
        IF c.ram_enabled /\ c.ram_size > 0
           /\ Mbc1RamAddr(c, addr) < c.ram_size
        THEN RamAt(c, Mbc1RamAddr(c, addr))
        ELSE \hFF
    ELSE \hFF

\* An MBC1 whose ROM-bank register keeps six bits of the value
Mbc1WriteSixBits(c, addr, value) ==
    IF isInRange(addr, \h2000, \h3FFF)
    THEN [c EXCEPT !.rom_bank = IF value % 64 = 0 THEN 1 ELSE value % 64]
    ELSE c

\* MBC1::write
Mbc1Write(c, addr, value) ==
    IF addr <= \h1FFF
        THEN [c EXCEPT !.ram_enabled = (value % 16 = \h0A)]
    ELSE IF isInRange(addr, \h2000, \h3FFF)
        THEN [c EXCEPT !.rom_bank = IF value % 32 = 0 THEN 1 ELSE value % 32]
    ELSE IF isInRange(addr, \h4000, \h5FFF)
        THEN [c EXCEPT !.ram_bank = value % 4]
    ELSE IF isInRange(addr, \h6000, \h7FFF)
        THEN [c EXCEPT !.mode_select = (value % 2 # 0)]
    ELSE IF isInRange(addr, \hA000, \hBFFF) THEN
        IF c.ram_enabled /\ c.ram_size > 0
           /\ Mbc1RamAddr(c, addr) < c.ram_size
        THEN [c EXCEPT !.ram = Put(@, Mbc1RamAddr(c, addr), value)]
        ELSE c
    ELSE c

\* MBC2::read
Mbc2Read(c, addr) ==
    IF addr <= \h3FFF THEN RomAt(c, addr)
    ELSE IF isInRange(addr, \h4000, \h7FFF)
        THEN RomAt(c, c.rom_bank * \h4000 + (addr - \h4000))
    ELSE IF isInRange(addr, \hA000, \hA1FF)
        THEN IF c.ram_enabled THEN RamAt(c, addr - \hA000) % 16 ELSE \hFF
    ELSE IF isInRange(addr, \hA200, \hBFFF) THEN \h00
    ELSE \hFF

\* MBC2::write: address bit 8 selects between the ROM bank and RAM enable
Mbc2Write(c, addr, value) ==
    IF addr <= \h3FFF THEN
        IF Bit(addr, 8) = 1
        THEN [c EXCEPT !.rom_bank = IF value % 16 = 0 THEN 1 ELSE value % 16]
        ELSE [c EXCEPT !.ram_enabled = (value % 16 = \h0A)]
    ELSE IF isInRange(addr, \hA000, \hA1FF) THEN
        IF c.ram_enabled
        THEN [c EXCEPT !.ram = Put(@, addr - \hA000, value % 16)]
        ELSE c
    ELSE c

\* MBC3::updateRTC: the registers take the host's local time `now`,
\* unless the halt flag (DH bit 6) is set
updateRTC(c, now) ==
    IF Bit(c.rtc_regs.dh, 6) = 1 THEN c
    ELSE LET days == now.yday
             dh1 == IF days > 255 THEN BitOr(c.rtc_regs.dh, \h01)
                    ELSE BitClear(c.rtc_regs.dh, \h01)
             dh2 == IF days > 511 THEN BitOr(dh1, \h80) ELSE dh1
         IN [c EXCEPT !.rtc_regs = [ s |-> now.sec, m |-> now.min,
                                     h |-> now.hour, dl |-> days % 256,
                                     dh |-> dh2 ]]

\* MBC3::latchRTC
latchRTC(c, now) ==
    LET c1 == updateRTC(c, now)
    IN [c1 EXCEPT !.latch_regs = c1.rtc_regs]

\* MBC3::read
Mbc3Read(c, addr) ==
    IF addr <= \h3FFF THEN RomAt(c, addr)
    ELSE IF isInRange(addr, \h4000, \h7FFF)
        THEN RomAt(c, c.rom_bank * \h4000 + (addr - \h4000))
    ELSE IF isInRange(addr, \hA000, \hBFFF) THEN
        IF ~c.ram_enabled THEN \hFF
        ELSE IF c.rtc /\ isInRange(c.ram_bank, \h08, \h0C) THEN
            CASE c.ram_bank = \h08 -> c.latch_regs.s
              [] c.ram_bank = \h09 -> c.latch_regs.m
              [] c.ram_bank = \h0A -> c.latch_regs.h
              [] c.ram_bank = \h0B -> c.latch_regs.dl
              [] c.ram_bank = \h0C -> c.latch_regs.dh
        ELSE IF c.ram_bank <= \h07 /\ c.ram_size > 0
                /\ c.ram_bank * \h2000 + (addr - \hA000) < c.ram_size
            THEN RamAt(c, c.ram_bank * \h2000 + (addr - \hA000))
        ELSE \hFF
    ELSE \hFF

\* An MBC3 whose ROM-bank register stores the seven bits as written
Mbc3WriteKeepsZero(c, addr, value, now) ==
    IF isInRange(addr, \h2000, \h3FFF)
    THEN [c EXCEPT !.rom_bank = value % 128]
    ELSE c

\* MBC3::write
Mbc3Write(c, addr, value, now) ==
    IF addr <= \h1FFF
        THEN [c EXCEPT !.ram_enabled = (value % 16 = \h0A)]
    ELSE IF isInRange(addr, \h2000, \h3FFF)
        THEN [c EXCEPT !.rom_bank = IF value % 128 = 0 THEN 1 ELSE value % 128]
    ELSE IF isInRange(addr, \h4000, \h5FFF)
        THEN [c EXCEPT !.ram_bank = value]
    ELSE IF isInRange(addr, \h6000, \h7FFF) THEN
        IF ~c.rtc THEN c
        ELSE IF value = \h00 /\ ~c.rtc_latch
            THEN [c EXCEPT !.rtc_latch = TRUE]
        ELSE IF value = \h01 /\ c.rtc_latch
            THEN [latchRTC(c, now) EXCEPT !.rtc_latch = FALSE]
        ELSE [c EXCEPT !.rtc_latch = FALSE]
    ELSE IF isInRange(addr, \hA000, \hBFFF) THEN
        IF ~c.ram_enabled THEN c
        ELSE IF c.rtc /\ isInRange(c.ram_bank, \h08, \h0C) THEN
            CASE c.ram_bank = \h08 -> [c EXCEPT !.rtc_regs.s = BitAnd(value, \h3F)]
              [] c.ram_bank = \h09 -> [c EXCEPT !.rtc_regs.m = BitAnd(value, \h3F)]
              [] c.ram_bank = \h0A -> [c EXCEPT !.rtc_regs.h = BitAnd(value, \h1F)]
              [] c.ram_bank = \h0B -> [c EXCEPT !.rtc_regs.dl = value]
              [] c.ram_bank = \h0C -> [c EXCEPT !.rtc_regs.dh = BitAnd(value, \hC1)]
        ELSE IF c.ram_bank <= \h07 /\ c.ram_size > 0
                /\ c.ram_bank * \h2000 + (addr - \hA000) < c.ram_size
            THEN [c EXCEPT !.ram = Put(@, c.ram_bank * \h2000 + (addr - \hA000),
                                       value)]
        ELSE c
    ELSE c

\* MBC5::read
Mbc5Read(c, addr) ==
    IF addr <= \h3FFF THEN RomAt(c, addr)
    ELSE IF isInRange(addr, \h4000, \h7FFF)
        THEN RomAt(c, c.rom_bank * \h4000 + (addr - \h4000))
    ELSE IF isInRange(addr, \hA000, \hBFFF) THEN
        IF c.ram_enabled /\ c.ram_size > 0
           /\ c.ram_bank * \h2000 + (addr - \hA000) < c.ram_size
        THEN RamAt(c, c.ram_bank * \h2000 + (addr - \hA000))
        ELSE \hFF
    ELSE \hFF

\* An MBC5 that treats bank 0 as bank 1, as the other controllers do
Mbc5WriteRemaps(c, addr, value) ==
    IF isInRange(addr, \h2000, \h2FFF)
    THEN [c EXCEPT !.rom_bank = (@ \div 256) * 256
                                + (IF value = 0 THEN 1 ELSE value)]
    ELSE IF isInRange(addr, \h3000, \h3FFF)
    THEN [c EXCEPT !.rom_bank = (@ % 256) + 256 * (value % 2)]
    ELSE c

\* MBC5::write
Mbc5Write(c, addr, value) ==
    IF addr <= \h1FFF
        THEN [c EXCEPT !.ram_enabled = (value % 16 = \h0A)]
    ELSE IF isInRange(addr, \h2000, \h2FFF)
        THEN [c EXCEPT !.rom_bank = (@ \div 256) * 256 + value]
    ELSE IF isInRange(addr, \h3000, \h3FFF)
        THEN [c EXCEPT !.rom_bank = (@ % 256) + 256 * (value % 2)]
    ELSE IF isInRange(addr, \h4000, \h5FFF)
        THEN [c EXCEPT !.ram_bank = IF c.rumble THEN value % 8 ELSE value % 16]
    ELSE IF isInRange(addr, \hA000, \hBFFF) THEN
        IF c.ram_enabled /\ c.ram_size > 0
           /\ c.ram_bank * \h2000 + (addr - \hA000) < c.ram_size
        THEN [c EXCEPT !.ram = Put(@, c.ram_bank * \h2000 + (addr - \hA000),
                                   value)]
        ELSE c
    ELSE c

\* Cartridge::read: mbc->read(addr)
MbcRead(c, addr) ==
    CASE c.kind = "MBC1" -> Mbc1Read(c, addr)
      [] c.kind = "MBC2" -> Mbc2Read(c, addr)
      [] c.kind = "MBC3" -> Mbc3Read(c, addr)
      [] c.kind = "MBC5" -> Mbc5Read(c, addr)

\* Cartridge::write: mbc->write(addr, value)
MbcWrite(c, addr, value, now) ==
    CASE c.kind = "MBC1" -> Mbc1Write(c, addr, value)
      [] c.kind = "MBC2" -> Mbc2Write(c, addr, value)
      [] c.kind = "MBC3" -> Mbc3Write(c, addr, value, now)
      [] c.kind = "MBC5" -> Mbc5Write(c, addr, value)

----------------------------------------------------------------------------
(* Timer registers (timer.cpp).  MemoryBus keeps a reference to the Timer  *)
(* that init_system deletes right after constructing the bus; the model    *)
(* follows the storage that reference designates.                          *)

TimerCtor ==
    [ div_counter |-> 0, div |-> 0, tima |-> 0, tma |-> 0, tac |-> 0,
      interrupt_requested |-> FALSE, tima_reload_scheduled |-> FALSE,
      previous_bit_state |-> FALSE ]

isTimerEnabled(t) == BitAnd(t.tac, \h04) # 0

\* The bit of the system counter that TAC value `sel` selects
SelectedBit(counter, sel) ==
    CASE sel % 4 = 0 -> Bit(counter, 9) # 0
      [] sel % 4 = 1 -> Bit(counter, 3) # 0
      [] sel % 4 = 2 -> Bit(counter, 5) # 0
      [] sel % 4 = 3 -> Bit(counter, 7) # 0

TimerReadRegister(t, addr) ==
    CASE addr = DIV_REGISTER  -> t.div
      [] addr = TIMA_REGISTER -> t.tima
      [] addr = TMA_REGISTER  -> t.tma
      [] addr = TAC_REGISTER  -> BitOr(t.tac, \hF8)
      [] OTHER                -> \hFF

\* tima++ with the overflow scheduling a reload
TimaIncrement(t) ==
    LET n == U8(t.tima + 1)
    IN [t EXCEPT !.tima = n,
                 !.tima_reload_scheduled = IF n = 0 THEN TRUE ELSE @]

\* A register write whose TIMA store leaves a scheduled reload in place
TimerWriteKeepsReload(t, addr, value) ==
    LET old_bit_state ==
            isTimerEnabled(t) /\ SelectedBit(t.div_counter, t.tac)
        Edge(t1, new_bit_state) ==
            [(IF old_bit_state /\ ~new_bit_state
              THEN [t1 EXCEPT !.tima = U8(@ + 1),
                              !.tima_reload_scheduled =
                                  IF t1.tima = 255 THEN TRUE ELSE @]
              ELSE t1) EXCEPT !.previous_bit_state = new_bit_state]
    IN CASE addr = DIV_REGISTER ->
              Edge([t EXCEPT !.div_counter = 0, !.div = 0], FALSE)
         [] addr = TIMA_REGISTER -> [t EXCEPT !.tima = value]
         [] addr = TMA_REGISTER ->
              [t EXCEPT !.tma = value,
                        !.tima = IF t.tima_reload_scheduled THEN value ELSE @]
         [] addr = TAC_REGISTER ->
              Edge([t EXCEPT !.tac = BitAnd(value, \h07)],
                   BitAnd(value, \h04) # 0
                   /\ SelectedBit(t.div_counter, value))
         [] OTHER -> t

\* A register write that never looks for a falling edge
TimerWriteIgnoresEdge(t, addr, value) ==
    CASE addr = DIV_REGISTER ->
           [t EXCEPT !.div_counter = 0, !.div = 0,
                     !.previous_bit_state = FALSE]
      [] addr = TIMA_REGISTER ->
           [t EXCEPT !.tima_reload_scheduled = FALSE, !.tima = value]
      [] addr = TMA_REGISTER ->
           [t EXCEPT !.tma = value,
                     !.tima = IF t.tima_reload_scheduled THEN value ELSE @]
      [] addr = TAC_REGISTER ->
           [t EXCEPT !.tac = BitAnd(value, \h07),
                     !.previous_bit_state =
                         BitAnd(value, \h04) # 0
                         /\ SelectedBit(t.div_counter, value)]
      [] OTHER -> t

TimerWriteRegister(t, addr, value) ==
    LET old_bit_state ==
            isTimerEnabled(t) /\ SelectedBit(t.div_counter, t.tac)
    IN CASE addr = DIV_REGISTER ->
              LET t1 == [t EXCEPT !.div_counter = 0, !.div = 0]
                  new_bit_state == isTimerEnabled(t1) /\ SelectedBit(0, t1.tac)
                  t2 == IF old_bit_state /\ ~new_bit_state
                        THEN TimaIncrement(t1) ELSE t1
              IN [t2 EXCEPT !.previous_bit_state = new_bit_state]
         [] addr = TIMA_REGISTER ->
              [t EXCEPT !.tima_reload_scheduled = FALSE, !.tima = value]
         [] addr = TMA_REGISTER ->
              [t EXCEPT !.tma = value,
                        !.tima = IF t.tima_reload_scheduled THEN value ELSE @]
         [] addr = TAC_REGISTER ->
              LET new_bit_state ==
                      BitAnd(value, \h04) # 0
                      /\ SelectedBit(t.div_counter, value)
                  t1 == [t EXCEPT !.tac = BitAnd(value, \h07)]
                  t2 == IF old_bit_state /\ ~new_bit_state
                        THEN TimaIncrement(t1) ELSE t1
              IN [t2 EXCEPT !.previous_bit_state = new_bit_state]
         [] OTHER -> t

----------------------------------------------------------------------------
(* MemoryBus (memory.cpp).  A bus value b bundles the three objects a bus  *)
(* access can touch: b.cart, b.mem and b.timer.  `mode` is what            *)
(* gpu->getCurrentMode() returns at the time of the access.                *)

MemoryBusCtor ==
    [ vram |-> <<>>, wram |-> <<>>,
      oam  |-> [i \in 0..159 |-> 0],
      io_regs |-> [i \in 0..127 |->
                     CASE i = \h00 -> \hCF
                       [] i = \h04 -> \h18
                       [] i = \h07 -> \hF8
                       [] i = \h0F -> \hE1
                       [] i = \h40 -> \h91
                       [] i = \h41 -> \h85
                       [] i = \h47 -> \hFC
                       [] OTHER    -> 0],
      hram |-> (\hFFB6 - \hFF80) :> \hC9,
      ie_register |-> 0, joypad_state |-> \hFF, joypad_select |-> \hF0 ]

\* The joypad matrix read of MemoryBus::read
ReadP1(m) ==
    LET upper == BitAnd(m.joypad_select, \hF0)
    IN IF BitAnd(m.joypad_select, \h20) = 0
       THEN BitOr(upper, (m.joypad_state \div 16) % 16)
       ELSE IF BitAnd(m.joypad_select, \h10) = 0
            THEN BitOr(upper, m.joypad_state % 16)
            ELSE BitOr(upper, \h0F)

\* MemoryBus::read.  The VRAM and OAM branches test the PPU mode and then
\* return the stored byte on either side of the test, as the source does.
Read(b, mode, addr) ==
    IF addr < \h8000 THEN CartRead(b.cart, addr)
    ELSE IF isInRange(addr, \h8000, \h9FFF) THEN
        IF mode = "TRANSFER"
        THEN Get(b.mem.vram, addr - \h8000)
        ELSE Get(b.mem.vram, addr - \h8000)
    ELSE IF isInRange(addr, \hA000, \hBFFF) THEN CartRead(b.cart, addr)
    ELSE IF isInRange(addr, \hC000, \hDFFF) THEN Get(b.mem.wram, addr - \hC000)
    ELSE IF isInRange(addr, \hE000, \hFDFF) THEN Get(b.mem.wram, addr - \hE000)
    ELSE IF isInRange(addr, \hFE00, \hFE9F) THEN
        IF mode = "OAM" \/ mode = "TRANSFER"
        THEN b.mem.oam[addr - \hFE00]
        ELSE b.mem.oam[addr - \hFE00]
    ELSE IF isInRange(addr, \hFEA0, \hFEFF) THEN \hFF
    ELSE IF isInRange(addr, IO_REGISTERS_START, IO_REGISTERS_END) THEN
        IF isInRange(addr, DIV_REGISTER, TAC_REGISTER)
        THEN TimerReadRegister(b.timer, addr)
        ELSE IF addr = P1_REGISTER THEN ReadP1(b.mem)
        ELSE b.mem.io_regs[addr - IO_REGISTERS_START]
    ELSE IF isInRange(addr, HRAM_START, HRAM_END)
        THEN Get(b.mem.hram, addr - HRAM_START)
    ELSE b.mem.ie_register

\* MemoryBus::performDMATransfer: 160 bytes go straight into the oam array
performDMATransfer(b, mode, value) ==
    LET source == U16(value * 256)
    IN [b EXCEPT !.mem.oam = [i \in 0..159 |-> Read(b, mode, U16(source + i))]]

\* A store into io_regs
PutIO(b, addr, value) ==
    [b EXCEPT !.mem.io_regs[addr - IO_REGISTERS_START] = value]

\* MemoryBus::write.  VRAM and OAM stores happen in every PPU mode; a store
\* to LY always leaves 0 there; the LCDC hook reads the register after the
\* store, so its "LCD turned on" branch cannot run.
Write(b, mode, addr, value) ==
    IF addr < \h8000
        THEN [b EXCEPT !.cart = CartWrite(b.cart, addr, value)]
    ELSE IF isInRange(addr, \h8000, \h9FFF) THEN
        IF mode = "TRANSFER"
        THEN [b EXCEPT !.mem.vram = Put(@, addr - \h8000, value)]
        ELSE [b EXCEPT !.mem.vram = Put(@, addr - \h8000, value)]
    ELSE IF isInRange(addr, \hA000, \hBFFF)
        THEN [b EXCEPT !.cart = CartWrite(b.cart, addr, value)]
    ELSE IF isInRange(addr, \hC000, \hDFFF)
        THEN [b EXCEPT !.mem.wram = Put(@, addr - \hC000, value)]
    ELSE IF isInRange(addr, \hE000, \hFDFF)
        THEN [b EXCEPT !.mem.wram = Put(@, addr - \hE000, value)]
    ELSE IF isInRange(addr, \hFE00, \hFE9F) THEN
        IF mode = "OAM" \/ mode = "TRANSFER"
        THEN [b EXCEPT !.mem.oam[addr - \hFE00] = value]
        ELSE [b EXCEPT !.mem.oam[addr - \hFE00] = value]
    ELSE IF isInRange(addr, \hFEA0, \hFEFF) THEN b
    ELSE IF isInRange(addr, IO_REGISTERS_START, IO_REGISTERS_END) THEN
        IF isInRange(addr, DIV_REGISTER, TAC_REGISTER) THEN
            LET b1 == [b EXCEPT
                         !.timer = TimerWriteRegister(b.timer, addr, value)]
            IN PutIO(b1, addr, IF addr # DIV_REGISTER THEN value ELSE 0)
        ELSE IF addr = P1_REGISTER THEN
            PutIO([b EXCEPT !.mem.joypad_select = BitAnd(value, \h30)],
                  addr, value)
        ELSE IF addr = DMA_REG THEN
            PutIO(performDMATransfer(b, mode, value), addr, value)
        ELSE IF addr = LY_REG THEN PutIO(b, addr, 0)
        ELSE
            LET b1 == PutIO(b, addr, value)
                lcd_enabled == BitAnd(value, \h80) # 0
                was_enabled ==
                    BitAnd(b1.mem.io_regs[LCDC_REG - IO_REGISTERS_START],
                           \h80) # 0
            IN IF addr = LCDC_REG /\ ~was_enabled /\ lcd_enabled
               THEN PutIO(b1, LY_REG, 0)
               ELSE b1
    ELSE IF isInRange(addr, HRAM_START, HRAM_END)
        THEN [b EXCEPT !.mem.hram = Put(@, addr - HRAM_START, value)]
    ELSE [b EXCEPT !.mem.ie_register = value]

\* A sequence of <<address, value>> stores, first to last.  TLC evaluates
\* operator arguments on demand; the comparison makes it finish each store
\* before it starts the next one.
RECURSIVE WriteAll(_, _, _)
WriteAll(b, mode, ws) ==
    IF ws = <<>> THEN b
    ELSE LET b1 == Write(b, mode, Head(ws)[1], Head(ws)[2])
         IN IF b1 = b1 THEN WriteAll(b1, mode, Tail(ws)) ELSE b

\* request_vblank_interrupt, request_lcd_stat_interrupt, the timer's and
\* the joypad's request: IF |= flag through the bus
RequestFlag(b, mode, flag) ==
    Write(b, mode, IF_REGISTER, BitOr(Read(b, mode, IF_REGISTER), flag))

\* MemoryBus::updateJoypadButton
updateJoypadButton(b, mode, button_mask, pressed) ==
    LET b1 == [b EXCEPT !.mem.joypad_state =
                 IF pressed THEN BitClear(@, button_mask)
                 ELSE BitOr(@, button_mask)]
    IN IF pressed THEN RequestFlag(b1, mode, \h10) ELSE b1

----------------------------------------------------------------------------
(* Timer::tick (timer.cpp).  The Timer raises its interrupt by a bus write  *)
(* to IF.  s carries the Timer, the bus, and how many times the flag has    *)
(* been raised.                                                             *)

\* A pass that reloads TIMA and raises the flag in the cycle of the overflow
TimerCycleReloadsAtOnce(s, mode) ==
    LET t == s.timer
        counter == U16(t.div_counter + 1)
        current_bit_state == isTimerEnabled(t) /\ SelectedBit(counter, t.tac)
        t2 == [t EXCEPT !.div_counter = counter, !.div = counter \div 256,
                        !.previous_bit_state = current_bit_state]
        fell == t.previous_bit_state /\ ~current_bit_state
        overflow == fell /\ t.tima = 255
    IN [ timer |-> IF overflow
                   THEN [t2 EXCEPT !.tima = t.tma, !.interrupt_requested = TRUE]
                   ELSE IF fell THEN [t2 EXCEPT !.tima = @ + 1] ELSE t2,
         bus |-> IF overflow THEN RequestFlag(s.bus, mode, \h04) ELSE s.bus,
         requests |-> s.requests + (IF overflow THEN 1 ELSE 0) ]

\* One pass of the loop: the reload scheduled by the previous pass, the
\* system counter, the falling-edge detector
TimerCycle(s, mode) ==
    LET t == s.timer
        reload == t.tima_reload_scheduled
        t1 == IF reload
              THEN [t EXCEPT !.tima = t.tma, !.tima_reload_scheduled = FALSE,
                             !.interrupt_requested = TRUE]
              ELSE t
        b1 == IF reload THEN RequestFlag(s.bus, mode, \h04) ELSE s.bus
        counter == U16(t1.div_counter + 1)
        current_bit_state == isTimerEnabled(t1) /\ SelectedBit(counter, t1.tac)
        t2 == [t1 EXCEPT !.div_counter = counter, !.div = counter \div 256]
        t3 == IF t2.previous_bit_state /\ ~current_bit_state
              THEN TimaIncrement(t2) ELSE t2
    IN [ timer |-> [t3 EXCEPT !.previous_bit_state = current_bit_state],
         bus |-> b1,
         requests |-> s.requests + (IF reload THEN 1 ELSE 0) ]

RECURSIVE TimerCycles(_, _, _)
TimerCycles(s, mode, n) ==
    IF n = 0 THEN s
    ELSE LET s1 == TimerCycle(s, mode)
         IN IF s1 = s1 THEN TimerCycles(s1, mode, n - 1) ELSE s

\* Timer::tick(uint8_t cycles)
timerTick(t, b, mode, cycles) ==
    TimerCycles([timer |-> t, bus |-> b, requests |-> 0], mode, cycles % 256)

----------------------------------------------------------------------------
(* Instruction table (instructions.cpp): the entries of the opcodes the    *)
(* ROM images above can reach.  An entry without alt_cycles has 0 there.   *)

\* The opcodes whose entry has Type::ERR
ErrOpcodes ==
    { \hD3, \hDB, \hDD, \hE3, \hE4, \hEB, \hEC, \hED, \hF4, \hFC, \hFD }

\* The opcodes whose entry has Type::RST: 0xC7, 0xCF, ..., 0xFF.  The param
\* of the entry of opcode 0xC7 + 8k is 8k.
RstOpcodes == { \hC7 + 8 * k : k \in 0..7 }

Instruction(type, addr_mode, reg1, reg2, cond, param, cycles, alt_cycles) ==
    [ type |-> type, addr_mode |-> addr_mode, reg1 |-> reg1, reg2 |-> reg2,
      cond |-> cond, param |-> param, cycles |-> cycles,
      alt_cycles |-> alt_cycles ]

instructions(opcode) ==
    CASE opcode = \h00 ->
           Instruction("NOP", "IMP", "NONE", "NONE", "NONE", 0, 4, 0)
      [] opcode = \h03 ->
           Instruction("INC", "R", "BC", "NONE", "NONE", 0, 8, 0)
      [] opcode = \h20 ->
           Instruction("JR", "CC_D8", "CC_NZ", "NONE", "NZ", 0, 12, 8)
      [] opcode = \h22 ->
           Instruction("LD", "R_HLI", "HL", "A", "NONE", 0, 8, 0)
      [] opcode = \h2A ->
           Instruction("LD", "HLI_R", "A", "HL", "NONE", 0, 8, 0)
      [] opcode = \h32 ->
           Instruction("LD", "R_HLD", "HL", "A", "NONE", 0, 8, 0)
      [] opcode = \h3A ->
           Instruction("LD", "HLD_R", "A", "HL", "NONE", 0, 8, 0)
      [] opcode = \h3E ->
           Instruction("LD", "R_D8", "A", "NONE", "NONE", 0, 8, 0)
      [] opcode = \h76 ->
           Instruction("HALT", "IMP", "NONE", "NONE", "NONE", 0, 4, 0)
      [] opcode = \hC0 ->
           Instruction("RET", "CC", "CC_NZ", "NONE", "NZ", 0, 20, 8)
      [] opcode = \hC6 ->
           Instruction("ADD", "R_D8", "A", "NONE", "NONE", 0, 8, 0)
      [] opcode = \hCB ->
           Instruction("CB", "D8", "NONE", "NONE", "NONE", 0, 4, 0)
      [] opcode \in RstOpcodes ->
           Instruction("RST", "IMP", "NONE", "NONE", "NONE",
                       opcode - \hC7, 16, 0)
      [] opcode = \hF1 ->
           Instruction("POP", "R", "AF", "NONE", "NONE", 0, 12, 0)
      [] opcode = \hF5 ->
           Instruction("PUSH", "R", "AF", "NONE", "NONE", 0, 16, 0)
      [] opcode = \hFB ->
           Instruction("EI", "IMP", "NONE", "NONE", "NONE", 0, 4, 0)
      [] opcode \in ErrOpcodes ->
           Instruction("ERR", "IMP", "NONE", "NONE", "NONE", 0, 4, 0)

\* The CB table (Instructions::getCB): the entry the ROM images use
cb_instructions(opcode) ==
    CASE opcode = \h00 ->
           Instruction("RLC", "R", "B", "NONE", "NONE", 0, 8, 0)

----------------------------------------------------------------------------
(* CPU registers (cpu_registers.cpp, cpu.hpp).  The pairs af, bc, de, hl   *)
(* are stored as 16-bit values; a, f, b, ... are their halves.             *)

FLAG_Z == \h80
FLAG_N == \h40
FLAG_H == \h20
FLAG_C == \h10

RegA(c) == c.af \div 256

RegF(c) == c.af % 256

SetA(c, v) == [c EXCEPT !.af = v * 256 + (@ % 256)]

SetF(c, v) == [c EXCEPT !.af = (@ \div 256) * 256 + v]

getFlag(c, flag) == BitAnd(RegF(c), flag) # 0

setFlag(c, flag, value) ==
    IF value THEN SetF(c, BitOr(RegF(c), flag))
    ELSE SetF(c, BitClear(RegF(c), flag))

isRegister16Bit(reg) == reg \in {"AF", "BC", "DE", "HL", "SP", "PC"}

getRegister8Bit(c, reg) ==
    CASE reg = "A" -> c.af \div 256
      [] reg = "F" -> c.af % 256
      [] reg = "B" -> c.bc \div 256
      [] reg = "C" -> c.bc % 256
      [] reg = "D" -> c.de \div 256
      [] reg = "E" -> c.de % 256
      [] reg = "H" -> c.hl \div 256
      [] reg = "L" -> c.hl % 256
      [] OTHER     -> 0

setRegister8Bit(c, reg, value) ==
    CASE reg = "A" -> [c EXCEPT !.af = value * 256 + (@ % 256)]
      [] reg = "F" -> [c EXCEPT !.af = (@ \div 256) * 256 + BitAnd(value, \hF0)]
      [] reg = "B" -> [c EXCEPT !.bc = value * 256 + (@ % 256)]
      [] reg = "C" -> [c EXCEPT !.bc = (@ \div 256) * 256 + value]
      [] reg = "D" -> [c EXCEPT !.de = value * 256 + (@ % 256)]
      [] reg = "E" -> [c EXCEPT !.de = (@ \div 256) * 256 + value]
      [] reg = "H" -> [c EXCEPT !.hl = value * 256 + (@ % 256)]
      [] reg = "L" -> [c EXCEPT !.hl = (@ \div 256) * 256 + value]
      [] OTHER     -> c

getRegister16Bit(c, reg) ==
    CASE reg = "AF" -> c.af
      [] reg = "BC" -> c.bc
      [] reg = "DE" -> c.de
      [] reg = "HL" -> c.hl
      [] reg = "SP" -> c.sp
      [] reg = "PC" -> c.pc
      [] OTHER      -> 0

\* value & 0xFFF0 for AF
MaskAF(value) == value - (value % 16)

setRegister16Bit(c, reg, value) ==
    CASE reg = "AF" -> [c EXCEPT !.af = MaskAF(value)]
      [] reg = "BC" -> [c EXCEPT !.bc = value]
      [] reg = "DE" -> [c EXCEPT !.de = value]
      [] reg = "HL" -> [c EXCEPT !.hl = value]
      [] reg = "SP" -> [c EXCEPT !.sp = value]
      [] reg = "PC" -> [c EXCEPT !.pc = value]
      [] OTHER      -> c

\* CPU::CPU and the member initialisers of cpu.hpp
CpuCtor ==
    [ af |-> \h01B0, bc |-> \h0013, de |-> \h00D8, hl |-> \h014D,
      sp |-> \hFFFE, pc |-> \h0100,
      ime |-> TRUE, halted |-> FALSE, stopped |-> FALSE,
      halt_bug_active |-> FALSE,
      cycles |-> 0, pending_cycles |-> 0,
      current_opcode |-> 0, immediate_value |-> 0 ]

\* A reset that forgets the stack pointer
CpuResetKeepsSP(c) ==
    [c EXCEPT !.af = \h01B0, !.bc = \h0013, !.de = \h00D8, !.hl = \h014D,
              !.pc = \h0100,
              !.ime = TRUE, !.halted = FALSE, !.stopped = FALSE]

\* CPU::reset
CpuReset(c) ==
    [c EXCEPT !.af = \h01B0, !.bc = \h0013, !.de = \h00D8, !.hl = \h014D,
              !.pc = \h0100, !.sp = \hFFFE,
              !.ime = TRUE, !.halted = FALSE, !.stopped = FALSE]

----------------------------------------------------------------------------
(* Interrupt dispatch (cpu.cpp, CPU::handleInterrupts)                     *)

\* if_reg & ie_reg & 0x1F
ActiveInterrupts(if_reg, ie_reg) == BitAnd(BitAnd(if_reg, ie_reg), \h1F)

\* A service block that forgets to clear the serviced flag in IF
ServiceLeavesFlag(c, b, mode, if_reg, flag, handler) ==
    LET sp1 == U16(c.sp + 65535)
        sp2 == U16(sp1 + 65535)
    IN [ handled |-> TRUE,
         cpu |-> [c EXCEPT !.ime = FALSE, !.sp = sp2, !.pc = handler,
                           !.cycles = @ + 12],
         bus |-> Write(Write(b, mode, sp1, c.pc \div 256),
                       mode, sp2, c.pc % 256) ]

\* One of the five service blocks: ime off, the flag cleared in IF, PC
\* pushed high byte first, PC at the handler, 12 added to the cycle count.
ServiceInterrupt(c, b, mode, if_reg, flag, handler) ==
    LET b1  == Write(b, mode, IF_REGISTER, BitClear(if_reg, flag))
        sp1 == U16(c.sp + 65535)
        b2  == Write(b1, mode, sp1, c.pc \div 256)
        sp2 == U16(sp1 + 65535)
        b3  == Write(b2, mode, sp2, c.pc % 256)
    IN [ handled |-> TRUE,
         cpu |-> [c EXCEPT !.ime = FALSE, !.sp = sp2, !.pc = handler,
                           !.cycles = @ + 12],
         bus |-> b3 ]

handleInterrupts(c, b, mode) ==
    IF ~c.ime THEN [handled |-> FALSE, cpu |-> c, bus |-> b]
    ELSE
      LET c1 == [c EXCEPT !.halted = FALSE]
          Pending(if_reg, active_interrupts) ==
            IF active_interrupts = 0
              THEN [handled |-> FALSE, cpu |-> c, bus |-> b]
            ELSE IF BitAnd(active_interrupts, \h01) # 0
              THEN ServiceInterrupt(c1, b, mode, if_reg, \h01, \h0040)
            ELSE IF BitAnd(active_interrupts, \h02) # 0
              THEN ServiceInterrupt(c1, b, mode, if_reg, \h02, \h0048)
            ELSE IF BitAnd(active_interrupts, \h04) # 0
              THEN ServiceInterrupt(c1, b, mode, if_reg, \h04, \h0050)
            ELSE IF BitAnd(active_interrupts, \h08) # 0
              THEN ServiceInterrupt(c1, b, mode, if_reg, \h08, \h0058)
            ELSE IF BitAnd(active_interrupts, \h10) # 0
              THEN ServiceInterrupt(c1, b, mode, if_reg, \h10, \h0060)
            ELSE [handled |-> FALSE, cpu |-> c1, bus |-> b]
          Registers(if_reg, ie_reg) ==
            Pending(if_reg, ActiveInterrupts(if_reg, ie_reg))
      IN Registers(Read(b, mode, IF_REGISTER), Read(b, mode, IE_REGISTER))

----------------------------------------------------------------------------
(* Operand fetch (cpu.cpp, CPU::fetch_adress).  It starts by incrementing  *)
(* PC, which CPU::tick has already moved past the opcode.                  *)

fetch_adress(c, b, mode, instr) ==
    LET pc1 == U16(c.pc + 1)
    IN IF instr.addr_mode \in {"R_D8", "MR_D8", "D8", "R_A8", "A8_R"}
         THEN [c EXCEPT !.immediate_value = Read(b, mode, pc1),
                        !.pc = U16(pc1 + 1)]
       ELSE IF instr.addr_mode \in {"R_D16", "D16", "D16_R", "A16_R", "R_A16"}
         THEN [c EXCEPT !.immediate_value =
                            Read(b, mode, pc1)
                            + 256 * Read(b, mode, U16(pc1 + 1)),
                        !.pc = U16(pc1 + 2)]
       ELSE [c EXCEPT !.pc = pc1]

----------------------------------------------------------------------------
(* Instruction bodies (cpu_instructions.cpp).  Each yields the CPU, the    *)
(* bus and `took`: whether a jump instruction did move PC.                 *)

Done(c, b) == [cpu |-> c, bus |-> b, took |-> FALSE]

executeLD(c, b, mode, instr) ==
    CASE instr.addr_mode = "R_D8" ->
           Done(setRegister8Bit(c, instr.reg1, c.immediate_value % 256), b)
      [] instr.addr_mode = "R_D16" ->
           Done(setRegister16Bit(c, instr.reg1, c.immediate_value), b)
      [] instr.addr_mode \in {"R_HLI", "R_HLD"} ->
           \* memory at HL is read into reg1, then HL moves
           LET value == Read(b, mode, c.hl)
               c1 == setRegister8Bit(c, instr.reg1, value)
           IN Done([c1 EXCEPT !.hl = IF instr.addr_mode = "R_HLI"
                                     THEN U16(@ + 1) ELSE U16(@ + 65535)], b)
      [] instr.addr_mode \in {"HLI_R", "HLD_R"} ->
           \* reg2 is written to memory at HL, then HL moves
           LET value == getRegister8Bit(c, instr.reg2)
           IN Done([c EXCEPT !.hl = IF instr.addr_mode = "HLI_R"
                                    THEN U16(@ + 1) ELSE U16(@ + 65535)],
                   Write(b, mode, c.hl, value))

executeINC(c, b, mode, instr) ==
    IF isRegister16Bit(instr.reg1)
    THEN Done(setRegister16Bit(c, instr.reg1,
                               U16(getRegister16Bit(c, instr.reg1) + 1)), b)
    ELSE LET value == getRegister8Bit(c, instr.reg1)
             c1 == setFlag(c, FLAG_N, FALSE)
             c2 == setFlag(c1, FLAG_H, value % 16 = 15)
             c3 == setRegister8Bit(c2, instr.reg1, U8(value + 1))
         IN Done(setFlag(c3, FLAG_Z, U8(value + 1) = 0), b)

\* The 8-bit path of executeADD (reg1 = A)
executeADD(c, b, mode, instr) ==
    LET a == RegA(c)
        value == IF instr.addr_mode = "R_D8" THEN c.immediate_value % 256
                 ELSE getRegister8Bit(c, instr.reg2)
        c1 == setFlag(c, FLAG_N, FALSE)
        c2 == setFlag(c1, FLAG_H, (a % 16) + (value % 16) > 15)
        c3 == setFlag(c2, FLAG_C, a + value > 255)
        c4 == SetA(c3, U8(a + value))
    IN IF instr.reg1 = "A" THEN Done(setFlag(c4, FLAG_Z, RegA(c4) = 0), b)
       ELSE Done(c, b)

\* The condition switch is entered for addr_mode R_D8 only; the table gives
\* the conditional forms CC_D8, so shouldJump stays true for them.
executeJR(c, b, mode, instr) ==
    LET shouldJump ==
            IF instr.addr_mode = "R_D8"
            THEN CASE instr.reg1 = "CC_NZ" -> ~getFlag(c, FLAG_Z)
                   [] instr.reg1 = "CC_Z"  -> getFlag(c, FLAG_Z)
                   [] instr.reg1 = "CC_NC" -> ~getFlag(c, FLAG_C)
                   [] instr.reg1 = "CC_C"  -> getFlag(c, FLAG_C)
                   [] OTHER -> TRUE
            ELSE TRUE
        offset == Int8(c.immediate_value % 256)
    IN IF shouldJump
       THEN [ cpu |-> [c EXCEPT !.pc = U16(@ + 65536 + offset)],
              bus |-> b, took |-> TRUE ]
       ELSE Done(c, b)

\* The condition switch is entered for addr_mode IMP only; the table gives
\* the conditional forms CC, so shouldReturn stays true for them.
executeRET(c, b, mode, instr) ==
    LET shouldReturn ==
            IF instr.addr_mode = "IMP"
            THEN CASE instr.reg1 = "CC_NZ" -> ~getFlag(c, FLAG_Z)
                   [] instr.reg1 = "CC_Z"  -> getFlag(c, FLAG_Z)
                   [] instr.reg1 = "CC_NC" -> ~getFlag(c, FLAG_C)
                   [] instr.reg1 = "CC_C"  -> getFlag(c, FLAG_C)
                   [] OTHER -> TRUE
            ELSE TRUE
        low_byte == Read(b, mode, c.sp)
        high_byte == Read(b, mode, U16(c.sp + 1))
    IN IF shouldReturn
       THEN [ cpu |-> [c EXCEPT !.pc = high_byte * 256 + low_byte,
                                !.sp = U16(@ + 2)],
              bus |-> b, took |-> TRUE ]
       ELSE Done(c, b)

executePUSH(c, b, mode, instr) ==
    LET value == getRegister16Bit(c, instr.reg1)
        sp1 == U16(c.sp + 65534)
        b1 == Write(b, mode, sp1, value % 256)
        b2 == Write(b1, mode, U16(sp1 + 1), value \div 256)
    IN Done([c EXCEPT !.sp = sp1], b2)

executePOP(c, b, mode, instr) ==
    LET low_byte == Read(b, mode, c.sp)
        high_byte == Read(b, mode, U16(c.sp + 1))
        value == high_byte * 256 + low_byte
        c1 == [c EXCEPT !.sp = U16(@ + 2)]
    IN Done(setRegister16Bit(
              c1, instr.reg1,
              IF instr.reg1 = "AF" THEN MaskAF(value) ELSE value), b)

\* CPU::executeRST: memory.write16 stores the low byte first
executeRST(c, b, mode, instr) ==
    LET addr == U16(instr.param * 8)
        sp1 == U16(c.sp + 65534)
        b1 == Write(b, mode, sp1, c.pc % 256)
        b2 == Write(b1, mode, U16(sp1 + 1), c.pc \div 256)
    IN Done([c EXCEPT !.sp = sp1, !.pc = addr], b2)

executeHALT(c, b) == Done([c EXCEPT !.halted = TRUE], b)

\* CPU::executeEI: ime is set in the instruction itself
executeEI(c, b) == Done([c EXCEPT !.ime = TRUE], b)

----------------------------------------------------------------------------
(* CPU::execute, CPU::get_instruction_cycles and CPU::tick (cpu.cpp)       *)

get_instruction_cycles(instr, branch_taken) ==
    IF instr.cond # "NONE"
    THEN IF branch_taken THEN instr.cycles ELSE instr.alt_cycles
    ELSE instr.cycles

\* execute() assigns branch_taken from executeJP/JR/CALL/RET.  cpu.hpp
\* declares them bool, their bodies end without returning a value, so the
\* value received is not determined by the program: it is the parameter
\* `returned`, which the step chooses freely.
execute(c, b, mode, instr, returned) ==
    LET branch_taken ==
            IF instr.type \in {"JP", "JR", "CALL", "RET"}
            THEN returned ELSE FALSE
        Finish(r) ==
            [ cpu |-> [r.cpu EXCEPT !.pending_cycles =
                         U8(get_instruction_cycles(instr, branch_taken) + 255)],
              bus |-> r.bus, took |-> r.took ]
    IN Finish(CASE instr.type = "NOP"  -> Done(c, b)
                [] instr.type = "LD"   -> executeLD(c, b, mode, instr)
                [] instr.type = "INC"  -> executeINC(c, b, mode, instr)
                [] instr.type = "ADD"  -> executeADD(c, b, mode, instr)
                [] instr.type = "JR"   -> executeJR(c, b, mode, instr)
                [] instr.type = "RET"  -> executeRET(c, b, mode, instr)
                [] instr.type = "PUSH" -> executePUSH(c, b, mode, instr)
                [] instr.type = "POP"  -> executePOP(c, b, mode, instr)
                [] instr.type = "HALT" -> executeHALT(c, b)
                [] instr.type = "EI"   -> executeEI(c, b)
                [] instr.type = "RST"  -> executeRST(c, b, mode, instr)
                [] instr.type = "ERR"  -> Done(c, b)   \* case ERR: break
                [] OTHER               -> Done(c, b))

\* One call of CPU::tick.  `kind` names the path through it.
tick(c, b, mode, returned) ==
    IF c.stopped
    THEN [ kind |-> "stopped", cpu |-> [c EXCEPT !.cycles = @ + 1],
           bus |-> b, took |-> FALSE ]
    ELSE
      LET Executed(e) ==
            [ kind |-> "fetch", cpu |-> [e.cpu EXCEPT !.cycles = @ + 1],
              bus |-> e.bus, took |-> e.took ]
          Decoded(c1, instr) ==
            Executed(execute(fetch_adress(c1, b, mode, instr),
                             b, mode, instr, returned))
          Fetched(c0, opcode) ==
            Decoded(IF c0.halt_bug_active
                    THEN [c0 EXCEPT !.halt_bug_active = FALSE,
                                    !.current_opcode = opcode]
                    ELSE [c0 EXCEPT !.current_opcode = opcode,
                                    !.pc = U16(@ + 1)],
                    instructions(opcode))
          Continue(h) ==
            IF h.handled
            THEN [ kind |-> "dispatch", cpu |-> h.cpu, bus |-> h.bus,
                   took |-> FALSE ]
            ELSE IF h.cpu.halted
            THEN [ kind |-> "halted",
                   cpu |-> [h.cpu EXCEPT !.cycles = @ + 1],
                   bus |-> h.bus, took |-> FALSE ]
            ELSE IF h.cpu.pending_cycles = 0
            THEN Fetched(h.cpu, Read(b, mode, h.cpu.pc))
            ELSE [ kind |-> "pending",
                   cpu |-> [h.cpu EXCEPT !.pending_cycles = @ - 1,
                                         !.cycles = @ + 1],
                   bus |-> h.bus, took |-> FALSE ]
      IN Continue(handleInterrupts(c, b, mode))

----------------------------------------------------------------------------
(* PPU (gpu.cpp, gpu.hpp)                                                  *)

CYCLES_OAM == 80
CYCLES_SCANLINE == 456
LinesPerFrame == 154
VBlankStartLine == 144

ModeNumber(mode) ==
    CASE mode = "HBLANK" -> 0
      [] mode = "VBLANK" -> 1
      [] mode = "OAM" -> 2
      [] mode = "TRANSFER" -> 3

GpuCtor == [current_mode |-> "HBLANK", mode_cycles |-> 0, frame_counter |-> 0]

\* The renderer's members as GPU::GPU and GPU::reset leave them.  Nothing
\* in the mode machine of GPU::tick reads them, so a GPU carries them only
\* where the renderer is observed (gpuRender below).  screen_buffer, the
\* GPU's private vram copy, sprite_fifo and fifo_x are written but never
\* decide anything and are left out.
RenderCtor ==
    [ visible_sprites |-> <<>>, bg_fifo |-> <<>>, pixel_x |-> 0,
      fetcher_x |-> 0, fetcher_state |-> "TILE", fetcher_cycles |-> 0,
      tile_idx |-> 0, tile_data_low |-> 0, tile_data_high |-> 0,
      window_active |-> FALSE, window_line |-> 0 ]

\* A PPU that takes the LCD for switched off whatever LCDC holds
LcdNeverEnabled(b, mode) == FALSE

isLCDEnabled(b, mode) == BitAnd(Read(b, mode, LCDC_REG), \h80) # 0

\* A STAT update that leaves the mode bits as they were
StatKeepsMode(stat, mode) == stat

\* stat &= 0xFC; stat |= mode
StatWithMode(stat, mode) == BitOr(BitAnd(stat, \hFC), ModeNumber(mode))

\* The STAT update that follows every mode change, with the STAT interrupt
\* request when the source bit `enable` is set (0 where the code has none)
EnterMode(b, mode, enable) ==
    LET stat == StatWithMode(Read(b, mode, STAT_REG), mode)
        b1 == Write(b, mode, STAT_REG, stat)
    IN IF BitAnd(stat, enable) # 0 THEN RequestFlag(b1, mode, \h02) ELSE b1

\* GPU::checkLYC
checkLYC(b, mode) ==
    LET ly == Read(b, mode, LY_REG)
        lyc == Read(b, mode, LYC_REG)
        stat == Read(b, mode, STAT_REG)
    IN IF ly = lyc
       THEN LET stat1 == BitOr(stat, \h04)
                b1 == IF BitAnd(stat1, \h40) # 0
                      THEN RequestFlag(b, mode, \h02) ELSE b
            IN Write(b1, mode, STAT_REG, stat1)
       ELSE Write(b, mode, STAT_REG, BitClear(stat, \h04))

\* GPU::calculateMode3Duration
calculateMode3Duration(b, mode, scanline) ==
    LET lcdc == Read(b, mode, LCDC_REG)
        scrollX == Read(b, mode, SCX_REG)
        window == IF BitAnd(lcdc, \h20) # 0
                     /\ scanline >= Read(b, mode, WY_REG)
                     /\ Read(b, mode, WX_REG) <= 166
                  THEN 6 ELSE 0
        spriteHeight == IF BitAnd(lcdc, \h04) # 0 THEN 16 ELSE 8
        spriteY(i) == U8(Read(b, mode, \hFE00 + i * 4) + 240)
        onLine == {i \in 0..39 : scanline >= spriteY(i)
                                 /\ scanline < spriteY(i) + spriteHeight}
        spritesOnLine == IF Cardinality(onLine) > 10 THEN 10
                         ELSE Cardinality(onLine)
    IN 172 + (scrollX % 8) + window + 6 * spritesOnLine

\* GPU::scanOAM.  std::sort orders the entries by x; entries with equal x
\* are kept in OAM order here.
scanOAM(g, b, mode) ==
    IF BitAnd(Read(b, mode, LCDC_REG), \h02) = 0
    THEN [g EXCEPT !.visible_sprites = <<>>]
    ELSE
      LET current_line == Read(b, mode, LY_REG)
          sprite_height ==
              IF BitAnd(Read(b, mode, LCDC_REG), \h04) # 0 THEN 16 ELSE 8
          y_pos(i) == U8(Read(b, mode, \hFE00 + i * 4) + 240)
          sprite(i) ==
              [ y |-> y_pos(i),
                x |-> U8(Read(b, mode, \hFE00 + i * 4 + 1) + 248),
                tile_idx |-> Read(b, mode, \hFE00 + i * 4 + 2),
                attrs |-> Read(b, mode, \hFE00 + i * 4 + 3),
                oam_idx |-> i ]
          RECURSIVE Scan(_, _)
          Scan(i, found) ==
              IF i = 40 \/ Len(found) >= 10 THEN found
              ELSE IF current_line >= y_pos(i)
                      /\ current_line < y_pos(i) + sprite_height
                   THEN Scan(i + 1, Append(found, sprite(i)))
                   ELSE Scan(i + 1, found)
          Place(rest, e, k) ==
              SubSeq(rest, 1, k) \o <<e>> \o SubSeq(rest, k + 1, Len(rest))
          Insert(rest, e) ==
              Place(rest, e,
                    Cardinality({j \in 1..Len(rest) : rest[j].x <= e.x}))
          RECURSIVE Sort(_)
          Sort(seq) ==
              IF seq = <<>> THEN <<>>
              ELSE Insert(Sort(SubSeq(seq, 1, Len(seq) - 1)), seq[Len(seq)])
      IN [g EXCEPT !.visible_sprites = Sort(Scan(0, <<>>))]

\* GPU::resetPixelFIFO
resetPixelFIFO(g) ==
    [g EXCEPT !.bg_fifo = <<>>, !.pixel_x = 0, !.fetcher_x = 0,
              !.fetcher_state = "TILE", !.fetcher_cycles = 0,
              !.window_active = FALSE]

\* GPU::startPixelTransfer
startPixelTransfer(g) == [resetPixelFIFO(g) EXCEPT !.window_active = FALSE]

\* A PUSH step that appends the row twice
FetcherPushTwice(g) ==
    LET row == [k \in 1..8 |->
                  2 * Bit(g.tile_data_high, 8 - k) + Bit(g.tile_data_low, 8 - k)]
    IN IF Len(g.bg_fifo) <= 8
       THEN [g EXCEPT !.bg_fifo = @ \o row \o row, !.fetcher_x = @ + 1,
                      !.fetcher_state = "TILE"]
       ELSE g

\* The PUSH case of GPU::fetchTileData: the eight pixels of the fetched
\* row, bit 7 first, are appended if the FIFO holds no more than eight
FetcherPush(g) ==
    LET row == [k \in 1..8 |->
                  2 * Bit(g.tile_data_high, 8 - k) + Bit(g.tile_data_low, 8 - k)]
    IN IF Len(g.bg_fifo) <= 8
       THEN [g EXCEPT !.bg_fifo = @ \o row, !.fetcher_x = @ + 1,
                      !.fetcher_state = "TILE"]
       ELSE g

\* GPU::fetchTileData: one step of the fetcher.  The call of mixPixels at
\* its end changes sprite_fifo only.
fetchTileData(g, b, mode) ==
    LET lcdc == Read(b, mode, LCDC_REG)
        current_line == Read(b, mode, LY_REG)
        scy == Read(b, mode, \hFF42)
        tile_map == IF g.window_active
                    THEN (IF BitAnd(lcdc, \h40) # 0 THEN \h9C00 ELSE \h9800)
                    ELSE (IF BitAnd(lcdc, \h08) # 0 THEN \h9C00 ELSE \h9800)
        x_pos == IF g.window_active THEN U8(g.fetcher_x)
                 ELSE (Read(b, mode, SCX_REG) \div 8 + g.fetcher_x) % 32
        y_pos == IF g.window_active THEN g.window_line
                 ELSE U8(scy + current_line)
        tile_data_addr == IF BitAnd(lcdc, \h10) # 0 THEN \h8000 ELSE \h8800
        tile_addr == IF tile_data_addr = \h8000
                     THEN U16(tile_data_addr + g.tile_idx * 16)
                     ELSE U16(tile_data_addr + (Int8(g.tile_idx) + 128) * 16)
        row == IF g.window_active THEN g.window_line % 8
               ELSE U8(scy + current_line) % 8
    IN CASE g.fetcher_state = "TILE" ->
              [g EXCEPT !.tile_idx =
                            Read(b, mode, U16(tile_map + (y_pos \div 8) * 32
                                              + x_pos)),
                        !.fetcher_state = "DATA_LOW"]
         [] g.fetcher_state = "DATA_LOW" ->
              [g EXCEPT !.tile_data_low =
                            Read(b, mode, U16(tile_addr + row * 2)),
                        !.fetcher_state = "DATA_HIGH"]
         [] g.fetcher_state = "DATA_HIGH" ->
              [g EXCEPT !.tile_data_high =
                            Read(b, mode, U16(tile_addr + row * 2 + 1)),
                        !.fetcher_state = "PUSH"]
         [] g.fetcher_state = "PUSH" -> FetcherPush(g)

\* GPU::drawPixel: the front of the FIFO, if there is one, goes to the
\* screen buffer
drawPixel(g) ==
    [g EXCEPT !.bg_fifo = IF @ # <<>> THEN Tail(@) ELSE @,
              !.pixel_x = @ + 1]

\* One pass of the loop of GPU::processScanline.  s.gpu is the GPU; s.peak
\* is the largest size the FIFO has had and s.pops the number of entries
\* taken from it since the call began.
RenderStep(s, b, mode) ==
    LET Fetch(g0) ==
            IF g0.fetcher_cycles % 2 = 0
            THEN fetchTileData(g0, b, mode) ELSE g0
        Window(g1) ==
            IF /\ BitAnd(Read(b, mode, LCDC_REG), \h20) # 0
               /\ ~g1.window_active
               /\ Read(b, mode, LY_REG) >= Read(b, mode, WY_REG)
               /\ g1.pixel_x >= U8(Read(b, mode, WX_REG) + 249)
            THEN [g1 EXCEPT !.window_active = TRUE, !.fetcher_x = 0,
                            !.fetcher_state = "TILE", !.bg_fifo = <<>>]
            ELSE g1
        Draw(g2) == IF g2.bg_fifo # <<>> THEN drawPixel(g2) ELSE g2
        Pass(g1, g2, g3) ==
            [ gpu |-> g3,
              peak |-> IF Len(g1.bg_fifo) > s.peak
                       THEN Len(g1.bg_fifo) ELSE s.peak,
              pops |-> s.pops + (Len(g2.bg_fifo) - Len(g3.bg_fifo)) ]
        Drawn(g1, g2) == Pass(g1, g2, Draw(g2))
        Fetched(g1) == Drawn(g1, Window(g1))
    IN IF s.gpu.pixel_x >= 160 THEN s
       ELSE Fetched(Fetch([s.gpu EXCEPT !.fetcher_cycles = @ + 1]))

\* The loop, eight passes at a time.  Nothing in it changes mode_cycles or
\* a register, so the second half of the loop condition is evaluated once,
\* in processScanline.
RECURSIVE RenderLoop(_, _, _)
RenderLoop(s, b, mode) ==
    LET Step(x) == RenderStep(x, b, mode)
    IN IF s.gpu.pixel_x >= 160 THEN s
       ELSE RenderLoop(Step(Step(Step(Step(Step(Step(Step(Step(s)))))))),
                       b, mode)

\* GPU::processScanline
processScanline(g, b, mode) ==
    IF g.mode_cycles < calculateMode3Duration(b, mode, Read(b, mode, LY_REG))
    THEN RenderLoop([gpu |-> g, peak |-> Len(g.bg_fifo), pops |-> 0], b, mode)
    ELSE [gpu |-> g, peak |-> Len(g.bg_fifo), pops |-> 0]

\* GPU::finalizeCurrentLine
finalizeCurrentLine(g) ==
    IF g.window_active THEN [g EXCEPT !.window_line = U8(@ + 1)] ELSE g

\* What GPU::tick(cycles) does to the renderer's members of a GPU that
\* carries them: scanOAM and startPixelTransfer when Mode 2 ends,
\* processScanline on every call in Mode 3, finalizeCurrentLine when Mode 3
\* ends, window_line = 0 when line 153 ends.  `peak` and `pops` describe
\* the call of processScanline, if there was one.
gpuRender(g, b, cycles) ==
    LET mc == U16(g.mode_cycles + cycles)
        current_line == Read(b, g.current_mode, LY_REG)
        Same(x) == [gpu |-> x, peak |-> 0, pops |-> 0]
        Scanned(p) ==
            IF mc >= calculateMode3Duration(b, "TRANSFER", current_line)
            THEN [p EXCEPT !.gpu = finalizeCurrentLine(p.gpu)] ELSE p
    IN IF ~isLCDEnabled(b, g.current_mode) THEN Same(g)
       ELSE CASE g.current_mode = "OAM" ->
                   IF mc >= CYCLES_OAM
                   THEN Same(startPixelTransfer(scanOAM(g, b, "OAM")))
                   ELSE Same(g)
              [] g.current_mode = "TRANSFER" ->
                   Scanned(processScanline([g EXCEPT !.mode_cycles = mc],
                                           b, "TRANSFER"))
              [] g.current_mode = "VBLANK" ->
                   IF mc >= CYCLES_SCANLINE
                      /\ (current_line + 1) % LinesPerFrame = 0
                   THEN Same([g EXCEPT !.window_line = 0]) ELSE Same(g)
              [] OTHER -> Same(g)

\* GPU::tick(cycles): at most one mode change per call.  `vblank` tells
\* whether vblank_callback ran.
gpuTick(g, b, cycles) ==
    IF ~isLCDEnabled(b, g.current_mode)
    THEN LET b1 == Write(b, g.current_mode, LY_REG, 0)
             stat == StatWithMode(Read(b1, g.current_mode, STAT_REG), "VBLANK")
         IN [ gpu |-> g, bus |-> Write(b1, g.current_mode, STAT_REG, stat),
              vblank |-> FALSE ]
    ELSE
      LET mc == U16(g.mode_cycles + cycles)
          current_line == Read(b, g.current_mode, LY_REG)
          stay == [ gpu |-> [g EXCEPT !.mode_cycles = mc], bus |-> b,
                    vblank |-> FALSE ]
      IN CASE g.current_mode = "OAM" ->
                IF mc >= CYCLES_OAM
                THEN [ gpu |-> [g EXCEPT !.current_mode = "TRANSFER",
                                         !.mode_cycles = mc - CYCLES_OAM],
                       bus |-> EnterMode(b, "TRANSFER", 0),
                       vblank |-> FALSE ]
                ELSE stay
           [] g.current_mode = "TRANSFER" ->
                LET mode3_duration ==
                        calculateMode3Duration(b, "TRANSFER", current_line)
                IN IF mc >= mode3_duration
                   THEN [ gpu |-> [g EXCEPT !.current_mode = "HBLANK",
                                            !.mode_cycles = mc - mode3_duration],
                          bus |-> EnterMode(b, "HBLANK", \h08),
                          vblank |-> FALSE ]
                   ELSE stay
           [] g.current_mode = "HBLANK" ->
                LET hblank_duration ==
                        CYCLES_SCANLINE - CYCLES_OAM
                        - calculateMode3Duration(b, "HBLANK", current_line)
                    next_line == (current_line + 1) % LinesPerFrame
                    b1 == checkLYC(Write(b, "HBLANK", LY_REG, next_line),
                                   "HBLANK")
                IN IF mc >= hblank_duration
                   THEN IF next_line = VBlankStartLine
                        THEN [ gpu |-> [g EXCEPT
                                          !.current_mode = "VBLANK",
                                          !.mode_cycles = mc - hblank_duration,
                                          !.frame_counter = @ + 1],
                               bus |-> RequestFlag(
                                         EnterMode(b1, "VBLANK", \h10),
                                         "VBLANK", \h01),
                               vblank |-> TRUE ]
                        ELSE [ gpu |-> [g EXCEPT
                                          !.current_mode = "OAM",
                                          !.mode_cycles = mc - hblank_duration],
                               bus |-> EnterMode(b1, "OAM", \h20),
                               vblank |-> FALSE ]
                   ELSE stay
           [] g.current_mode = "VBLANK" ->
                LET next_line == (current_line + 1) % LinesPerFrame
                    b1 == checkLYC(Write(b, "VBLANK", LY_REG, next_line),
                                   "VBLANK")
                IN IF mc >= CYCLES_SCANLINE
                   THEN IF next_line = 0
                        THEN [ gpu |-> [g EXCEPT
                                          !.current_mode = "OAM",
                                          !.mode_cycles = mc - CYCLES_SCANLINE],
                               bus |-> EnterMode(b1, "OAM", \h20),
                               vblank |-> FALSE ]
                        ELSE [ gpu |-> [g EXCEPT
                                          !.mode_cycles = mc - CYCLES_SCANLINE],
                               bus |-> b1, vblank |-> FALSE ]
                   ELSE stay

\* The register stores of GPU::reset, in order
GpuResetWrites ==
    << <<\hFF40, \h91>>, <<\hFF41, \h00>>, <<\hFF42, \h00>>, <<\hFF43, \h00>>,
       <<\hFF44, \h00>>, <<\hFF45, \h00>>, <<\hFF47, \hE4>>, <<\hFF48, \hE4>>,
       <<\hFF49, \hE4>>, <<\hFF4A, \h00>>, <<\hFF4B, \h00>> >>

----------------------------------------------------------------------------
(* Power-on: init_system constructs the objects, initializeSystem stores   *)
(* the post-boot register values (the store to DMA copies FF00-FF9F into   *)
(* OAM), resets the CPU and resets the GPU.                                *)

InitializeSystemWrites ==
    << <<\hFF00, \hCF>>, <<\hFF01, \h00>>, <<\hFF02, \h7E>>, <<\hFF04, \hAB>>,
       <<\hFF05, \h00>>, <<\hFF06, \h00>>, <<\hFF07, \hF8>>, <<\hFF0F, \hE1>>,
       <<\hFF10, \h80>>, <<\hFF11, \hBF>>, <<\hFF12, \hF3>>, <<\hFF13, \hFF>>,
       <<\hFF14, \hBF>>, <<\hFF16, \h3F>>, <<\hFF17, \h00>>, <<\hFF18, \hFF>>,
       <<\hFF19, \hBF>>, <<\hFF1A, \h7F>>, <<\hFF1B, \hFF>>, <<\hFF1C, \h9F>>,
       <<\hFF1D, \hFF>>, <<\hFF1E, \hBF>>, <<\hFF20, \hFF>>, <<\hFF21, \h00>>,
       <<\hFF22, \h00>>, <<\hFF23, \hBF>>, <<\hFF24, \h77>>, <<\hFF25, \hF3>>,
       <<\hFF26, \hF1>>, <<\hFF40, \h91>>, <<\hFF41, \h85>>, <<\hFF42, \h00>>,
       <<\hFF43, \h00>>, <<\hFF44, \h00>>, <<\hFF45, \h00>>, <<\hFF47, \hFC>>,
       <<\hFF48, \hFF>>, <<\hFF49, \hFF>>, <<\hFF4A, \h00>>, <<\hFF4B, \h00>>,
       <<\hFF46, \hFF>>, <<\hFFFF, \h00>> >>

PowerOnBus(rom) ==
    LET b0 == [ cart |-> [rom |-> rom, ram_enabled |-> FALSE],
                mem |-> MemoryBusCtor, timer |-> TimerCtor ]
        b1 == WriteAll(b0, GpuCtor.current_mode, InitializeSystemWrites)
    IN WriteAll(b1, "HBLANK", GpuResetWrites)

----------------------------------------------------------------------------
(* State                                                                   *)

Bus == [cart |-> cart, mem |-> mem, timer |-> timer]

\* History of the last CPU::tick: what the CPU and the interrupt registers
\* held when it was called
NoPre ==
    [ ime |-> FALSE, if_reg |-> 0, ie_reg |-> 0, pc |-> 0, sp |-> 0,
      halted |-> FALSE, pending_cycles |-> 0, cycles |-> 0 ]

\* Timing of a scanline, in cycles handed to GPU::tick.  -1: not known,
\* because the line did not start in Mode 2 or the LCD was off during it.
NoLine ==
    [ age |-> -1,           \* cycles since Mode 2 of the line in progress began
      mode_age |-> -1,      \* cycles since the mode in progress began
      oam |-> 0,            \* how long its Mode 2 lasted
      transfer |-> 0,       \* how long its Mode 3 lasted
      done |-> <<>> ]       \* <<length, Mode 2, Mode 3>> of the last whole line

ObsInit ==
    [ last |-> "init",      \* the operation that produced this state
      kind |-> "none",      \* the path the last CPU::tick took
      pre |-> NoPre,
      step_start |-> 0,     \* cycle counter when the current instruction was fetched
      step_cost |-> 0,      \* what the table prescribes for its path
      ninstr |-> 0,         \* instructions run to completion
      ndispatch |-> 0,      \* interrupts dispatched
      step_ndispatch |-> 0, \* interrupts dispatched before that fetch
      af_set |-> <<>>,      \* the value last given to setRegisterAF
      pre_mode |-> "HBLANK",\* PPU mode before the last GPU::tick
      addr |-> 0,           \* address of the last bus access
      value |-> 0,          \* byte read or written by it
      old |-> 0,            \* byte stored there before a write
      since_err |-> -1,     \* fetches after the first ERR opcode; -1: none yet
      since_ei |-> -1,      \* fetches after an EI met with ime off; -1: none
      ei_dispatch |-> -1,   \* since_ei when the next interrupt was dispatched
      line |-> NoLine ]     \* the timing of the scanline in progress

\* The history after an operation other than CPU::tick
Touch(o, last) ==
    [o EXCEPT !.last = last, !.kind = "none", !.pre = NoPre,
              !.pre_mode = "HBLANK", !.addr = 0, !.value = 0, !.old = 0]

FrameInitial ==
    [ elapsed |-> 0, vblanks |-> 0, vblank_ok |-> TRUE,
      ly_last |-> 0, ly_max |-> 0, ly_inorder |-> TRUE ]

\* The driver before its first iteration.  init_system constructs a Timer,
\* hands it to the bus, deletes it and constructs a second one, which is the
\* one system_tick advances.  `aliased` tells whether the second Timer
\* occupies the storage of the first, the one the bus still refers to; if
\* it does not, the second Timer is drv.timer.
DriverInitial ==
    [ aliased |-> TRUE, timer |-> TimerCtor,
      timer_fed |-> 0,      \* cycles handed to Timer::tick so far
      gpu_fed |-> 0,        \* cycles handed to GPU::tick so far
      timer_step |-> 0,     \* cycles handed to Timer::tick by the last iteration
      gpu_step |-> 0,       \* cycles handed to GPU::tick by the last iteration
      requests |-> 0,       \* times Timer::tick has raised IF bit 2
      setup |-> <<>>,       \* TAC, TMA, TIMA a timer scenario started with
      disturbed |-> FALSE,  \* a timer register was written since
      writes |-> 0 ]        \* how many times

Init ==
    /\ \E rom \in RomNames :
         LET b == PowerOnBus(rom)
         IN cart = b.cart /\ mem = b.mem /\ timer = b.timer
    /\ cpu = CpuReset(CpuCtor)
    /\ gpu = GpuCtor
    /\ obs = ObsInit
    /\ frame = FrameInitial
    /\ drv = DriverInitial

SetBus(b) == cart' = b.cart /\ mem' = b.mem /\ timer' = b.timer

----------------------------------------------------------------------------
(* CPU operations                                                          *)

\* The cycle count the tables prescribe for the path an instruction took;
\* for the 0xCB escape it is the CB table's entry for the byte that follows
Prescribed(instr, second, took) ==
    IF instr.type = "CB" THEN cb_instructions(second).cycles
    ELSE IF instr.cond = "NONE" \/ took THEN instr.cycles
    ELSE instr.alt_cycles

\* cpu_step in main.cpp: one call of CPU::tick
CpuTick ==
    /\ cpu.cycles < MaxCycles
    /\ \E returned \in BOOLEAN :
       \E r \in {tick(cpu, Bus, gpu.current_mode, returned)} :
         LET instr == instructions(r.cpu.current_opcode)
             completes == r.kind \in {"fetch", "pending"}
                          /\ r.cpu.pending_cycles = 0
         IN /\ cpu' = r.cpu
            /\ SetBus(r.bus)
            /\ obs' = [obs EXCEPT
                 !.last = "cpu", !.kind = r.kind,
                 !.pre = [ ime |-> cpu.ime,
                           if_reg |-> Read(Bus, gpu.current_mode, IF_REGISTER),
                           ie_reg |-> Read(Bus, gpu.current_mode, IE_REGISTER),
                           pc |-> cpu.pc, sp |-> cpu.sp,
                           halted |-> cpu.halted,
                           pending_cycles |-> cpu.pending_cycles,
                           cycles |-> cpu.cycles ],
                 !.step_start = IF r.kind = "fetch" THEN cpu.cycles ELSE @,
                 !.step_cost = IF r.kind = "fetch"
                               THEN Prescribed(instr,
                                               r.cpu.immediate_value % 256,
                                               r.took)
                               ELSE @,
                 !.step_ndispatch = IF r.kind = "fetch" THEN obs.ndispatch
                                    ELSE @,
                 !.ninstr = IF completes THEN @ + 1 ELSE @,
                 !.ndispatch = IF r.kind = "dispatch" THEN @ + 1 ELSE @,
                 !.since_err = IF r.kind # "fetch" THEN @
                               ELSE IF @ >= 0 THEN @ + 1
                               ELSE IF instr.type = "ERR" THEN 0 ELSE @,
                 !.since_ei = IF r.kind = "dispatch" THEN -1
                              ELSE IF r.kind # "fetch" THEN @
                              ELSE IF instr.type = "EI" /\ ~cpu.ime THEN 0
                              ELSE IF @ >= 0 THEN @ + 1 ELSE @,
                 !.ei_dispatch = IF r.kind = "dispatch" /\ obs.since_ei >= 0
                                 THEN obs.since_ei ELSE @,
                 !.pre_mode = "HBLANK", !.addr = 0, !.value = 0, !.old = 0]
    /\ UNCHANGED <<gpu, frame, drv>>

\* The test harness prepares a scenario before the first tick.
Setup == cpu.cycles = 0 /\ obs.last # "cpu"

AFValues == {\h0000, \h12FF}

\* CPU::setRegisterAF (cpu.hpp): the value is stored as given
SetRegisterAF(value) ==
    /\ Setup
    /\ cpu' = [cpu EXCEPT !.af = value]
    /\ obs' = [Touch(obs, "setup") EXCEPT !.af_set = <<value>>]
    /\ UNCHANGED <<cart, mem, timer, gpu, frame, drv>>

\* CPU::setIME
SetIME(value) ==
    /\ Setup
    /\ cpu' = [cpu EXCEPT !.ime = value]
    /\ obs' = Touch(obs, "setup")
    /\ UNCHANGED <<cart, mem, timer, gpu, frame, drv>>

SetupWrites ==
    { <<IF_REGISTER, \h00>>, <<IF_REGISTER, \h02>>, <<IF_REGISTER, \h08>>,
      <<IF_REGISTER, \h10>>, <<IE_REGISTER, \h01>>, <<IE_REGISTER, \h1F>> }

\* MemoryBus::write called by the harness on IF or IE
SetupWrite(addr, value) ==
    /\ Setup
    /\ SetBus(Write(Bus, gpu.current_mode, addr, value))
    /\ obs' = Touch(obs, "setup")
    /\ UNCHANGED <<cpu, gpu, frame, drv>>

\* The sources that raise a flag in IF: here the PPU's VBlank callback
\* (0x01) and the timer (0x04)
RequestFlags == {\h01, \h04}

RequestInterrupt(flag) ==
    /\ cpu.cycles < MaxCycles
    /\ BitAnd(Read(Bus, gpu.current_mode, IF_REGISTER), flag) = 0
    /\ SetBus(RequestFlag(Bus, gpu.current_mode, flag))
    /\ obs' = Touch(obs, "request")
    /\ UNCHANGED <<cpu, gpu, frame, drv>>

Next ==
    \/ CpuTick
    \/ \E value \in AFValues : SetRegisterAF(value)
    \/ \E value \in BOOLEAN : SetIME(value)
    \/ \E w \in SetupWrites : SetupWrite(w[1], w[2])
    \/ \E flag \in RequestFlags : RequestInterrupt(flag)

Spec == Init /\ [][Next]_vars

----------------------------------------------------------------------------
(* PPU operations: GPU::tick as system_tick calls it, and the bus accesses *)
(* a program makes while the PPU runs.                                     *)

\* Cycle counts handed to GPU::tick in one call.  None exceeds the shortest
\* mode (80 cycles), so no call has to cross two mode boundaries.
TickSizes == {4, 76}

\* The byte a VRAM, OAM or register address holds in the bus's own arrays
Stored(m, addr) ==
    IF isInRange(addr, \h8000, \h9FFF) THEN Get(m.vram, addr - \h8000)
    ELSE IF isInRange(addr, \hFE00, \hFE9F) THEN m.oam[addr - \hFE00]
    ELSE IF isInRange(addr, IO_REGISTERS_START, IO_REGISTERS_END)
        THEN m.io_regs[addr - IO_REGISTERS_START]
    ELSE 0

\* gpu->tick(cycles)
GpuTick(cycles) ==
    /\ \E r \in {gpuTick(gpu, Bus, cycles)} :
         /\ gpu' = r.gpu
         /\ SetBus(r.bus)
    /\ obs' = [Touch(obs, "gpu") EXCEPT !.pre_mode = gpu.current_mode]
    /\ UNCHANGED <<cpu, frame, drv>>

ReadAddresses == {\h8000, \hFE00}

\* MemoryBus::read called by the program
BusRead(addr) ==
    /\ obs' = [Touch(obs, "read") EXCEPT
                 !.addr = addr,
                 !.value = Read(Bus, gpu.current_mode, addr)]
    /\ UNCHANGED <<cart, mem, timer, cpu, gpu, frame, drv>>

\* LCD off and on again, a VRAM byte, sprite 0 moved onto line 0, an OAM
\* DMA from ROM page 0x0100
BusWrites ==
    { <<LCDC_REG, \h11>>, <<LCDC_REG, \h91>>, <<\h8000, \h5A>>,
      <<\hFE00, \h10>>, <<DMA_REG, \h01>> }

\* MemoryBus::write called by the program
BusWrite(addr, value) ==
    /\ SetBus(Write(Bus, gpu.current_mode, addr, value))
    /\ obs' = [Touch(obs, "write") EXCEPT
                 !.addr = addr, !.value = value, !.old = Stored(mem, addr)]
    /\ UNCHANGED <<cpu, gpu, frame, drv>>

PpuInit == Init /\ cart.rom = "add"

PpuNext ==
    \/ \E cycles \in TickSizes : GpuTick(cycles)
    \/ \E addr \in ReadAddresses : BusRead(addr)
    \/ \E w \in BusWrites : BusWrite(w[1], w[2])

PpuSpec == PpuInit /\ [][PpuNext]_vars

----------------------------------------------------------------------------
(* STAT interrupt sources: the program enables sources in STAT, sets LYC,  *)
(* clears IF, and the PPU runs; the interrupt handler clears IF again.     *)

\* No STAT scenario is advanced beyond this many cycles (two scanlines).
MaxStatCycles == 912

\* <<STAT, LYC>>: Mode 0 and Mode 2 enabled; LY=LYC enabled with LYC = 0;
\* Mode 0 alone
StatSetups == { << \h28, 1 >>, << \h40, 0 >>, << \h08, 1 >> }

\* The combined STAT line: the OR of the enabled conditions
StatLine(b, mode) ==
    LET stat == Read(b, mode, STAT_REG)
    IN \/ Bit(stat, 6) = 1 /\ Read(b, mode, LY_REG) = Read(b, mode, LYC_REG)
       \/ Bit(stat, 5) = 1 /\ mode = "OAM"
       \/ Bit(stat, 4) = 1 /\ mode = "VBLANK"
       \/ Bit(stat, 3) = 1 /\ mode = "HBLANK"

StatInit ==
    /\ \E su \in StatSetups :
         LET b == WriteAll(PowerOnBus("add"), GpuCtor.current_mode,
                           << <<STAT_REG, su[1]>>, <<LYC_REG, su[2]>>,
                              <<IF_REGISTER, \h00>> >>)
         IN cart = b.cart /\ mem = b.mem /\ timer = b.timer
    /\ cpu = CpuReset(CpuCtor)
    /\ gpu = GpuCtor
    /\ obs = ObsInit
    /\ frame = FrameInitial
    /\ drv = DriverInitial

\* gpu->tick(cycles).  History: the mode, IF and the STAT line before it.
StatTick(cycles) ==
    /\ drv.gpu_fed + cycles <= MaxStatCycles
    /\ \E r \in {gpuTick(gpu, Bus, cycles)} :
         /\ gpu' = r.gpu
         /\ SetBus(r.bus)
    /\ obs' = [Touch(obs, "stat_tick") EXCEPT
                 !.pre_mode = gpu.current_mode,
                 !.value = Read(Bus, gpu.current_mode, IF_REGISTER),
                 !.old = IF StatLine(Bus, gpu.current_mode) THEN 1 ELSE 0]
    /\ drv' = [drv EXCEPT !.gpu_fed = @ + cycles, !.gpu_step = cycles]
    /\ UNCHANGED <<cpu, frame>>

\* The handler acknowledges: IF is written with 0
StatAcknowledge ==
    /\ Bit(Read(Bus, gpu.current_mode, IF_REGISTER), 1) = 1
    /\ SetBus(Write(Bus, gpu.current_mode, IF_REGISTER, \h00))
    /\ obs' = Touch(obs, "write")
    /\ UNCHANGED <<cpu, gpu, frame, drv>>

\* Values the program stores into STAT while the PPU runs: Mode 0 source
\* alone, Mode 2 and LY=LYC sources
StatWrites == { \h08, \h60 }

\* MemoryBus::write(STAT_REG, value) called by the program.  History: STAT
\* and IF before the store.
StatWrite(value) ==
    /\ SetBus(Write(Bus, gpu.current_mode, STAT_REG, value))
    /\ obs' = [Touch(obs, "stat_write") EXCEPT
                 !.value = value,
                 !.old = Read(Bus, gpu.current_mode, STAT_REG),
                 !.pre = [NoPre EXCEPT
                            !.if_reg = Read(Bus, gpu.current_mode,
                                            IF_REGISTER)]]
    /\ UNCHANGED <<cpu, gpu, frame, drv>>

StatNext ==
    \/ \E cycles \in TickSizes : StatTick(cycles)
    \/ StatAcknowledge
    \/ \E value \in StatWrites : StatWrite(value)

StatSpec == StatInit /\ [][StatNext]_vars

----------------------------------------------------------------------------
(* Scanline timing: the PPU runs from power-on while the program writes    *)
(* the registers and the OAM bytes that the Mode 3 length depends on, and  *)
(* switches the LCD off and on.                                            *)

\* No scenario has more than this many stores.
MaxLineWrites == 2

\* SCX, sprite 0 moved onto line 0, the window switched on, LCD off and on
LineWrites ==
    { <<SCX_REG, \h04>>, <<\hFE00, \h10>>, <<LCDC_REG, \hB1>>,
      <<LCDC_REG, \h11>>, <<LCDC_REG, \h91>> }

\* The line timing after a GPU::tick of `cycles` cycles that took the PPU
\* from `before` to `after`.  The cycles the tick carries over into a new
\* mode (mode_cycles) belong to that mode, the others to the mode it left.
LineTiming(l, before, after, cycles, lcd_on) ==
    LET over == after.mode_cycles
        age == IF l.age >= 0 THEN l.age + cycles ELSE -1
        mode_age == IF l.mode_age >= 0 THEN l.mode_age + cycles ELSE -1
    IN IF ~lcd_on THEN [NoLine EXCEPT !.done = l.done]
       ELSE IF after.current_mode = before.current_mode
       THEN [l EXCEPT !.age = age, !.mode_age = mode_age]
       ELSE IF after.current_mode = "OAM"
       THEN [ age |-> over, mode_age |-> over, oam |-> 0, transfer |-> 0,
              done |-> IF age >= 0
                       THEN << age - over, l.oam, l.transfer >>
                       ELSE l.done ]
       ELSE IF after.current_mode = "TRANSFER"
       THEN [l EXCEPT !.age = age, !.mode_age = over,
                      !.oam = IF mode_age >= 0 THEN mode_age - over ELSE 0]
       ELSE [l EXCEPT !.age = age, !.mode_age = over,
                      !.transfer = IF mode_age >= 0 THEN mode_age - over
                                   ELSE 0]

\* gpu->tick(cycles).  History: the mode before it, the line timing, and
\* whether it is the first call after the LCD was switched on again.
LineTick(cycles) ==
    /\ \E r \in {gpuTick(gpu, Bus, cycles)} :
         /\ gpu' = r.gpu
         /\ SetBus(r.bus)
         /\ obs' = [Touch(obs, "line_tick") EXCEPT
                      !.pre_mode = gpu.current_mode,
                      !.kind = IF obs.kind = "lcd_on" THEN "after_lcd_on"
                               ELSE "none",
                      !.line = LineTiming(obs.line, gpu, r.gpu, cycles,
                                          isLCDEnabled(Bus, gpu.current_mode))]
    /\ drv' = [drv EXCEPT !.gpu_step = cycles]
    /\ UNCHANGED <<cpu, frame>>

\* MemoryBus::write called by the program.  History: whether the store set
\* LCDC bit 7 that was clear.
LineWrite(addr, value) ==
    /\ drv.writes < MaxLineWrites
    /\ SetBus(Write(Bus, gpu.current_mode, addr, value))
    /\ obs' = [Touch(obs, "line_write") EXCEPT
                 !.addr = addr, !.value = value, !.old = Stored(mem, addr),
                 !.kind = IF addr = LCDC_REG /\ Bit(value, 7) = 1
                             /\ ~isLCDEnabled(Bus, gpu.current_mode)
                          THEN "lcd_on" ELSE "none"]
    /\ drv' = [drv EXCEPT !.writes = @ + 1]
    /\ UNCHANGED <<cpu, gpu, frame>>

LineNext ==
    \/ \E cycles \in TickSizes : LineTick(cycles)
    \/ \E w \in LineWrites : LineWrite(w[1], w[2])

LineSpec == PpuInit /\ [][LineNext]_vars

----------------------------------------------------------------------------
(* Rendering: the program sets up sprites, tile data or the window after   *)
(* power-on, and the PPU runs.                                             *)

\* No scenario is advanced beyond this many cycles (two scanlines).
MaxRenderCycles == 912

\* Stores made before the PPU runs.  8x8 sprites at Y = 16, 12, 9 and 8
\* with a row of tile 0 filled in; 8x16 sprites at Y = 1 and 16; eleven 8x8
\* sprites at Y = 16; the window switched on at WX = 15.
RenderSetups ==
    { << <<LCDC_REG, \h93>>, <<\h8000, \hA5>>, <<\h8001, \h0F>>,
         <<\hFE00, \h10>>, <<\hFE04, \h0C>>,
         <<\hFE08, \h09>>, <<\hFE0C, \h08>> >>,
      << <<LCDC_REG, \h97>>, <<\hFE00, \h01>>, <<\hFE04, \h10>> >>,
      << <<LCDC_REG, \h93>> >>
         \o [i \in 1..11 |-> <<\hFE00 + (i - 1) * 4, \h10>>],
      << <<LCDC_REG, \hB1>>, <<WX_REG, \h0F>> >> }

RenderInit ==
    /\ \E su \in RenderSetups :
         LET b == WriteAll(PowerOnBus("add"), GpuCtor.current_mode, su)
         IN cart = b.cart /\ mem = b.mem /\ timer = b.timer
    /\ cpu = CpuReset(CpuCtor)
    /\ gpu = GpuCtor @@ RenderCtor
    /\ obs = ObsInit
    /\ frame = FrameInitial
    /\ drv = DriverInitial

\* gpu->tick(cycles).  History: the mode before it and, if the call ran
\* GPU::processScanline, the largest size of the background FIFO during
\* the call (value) and the number of entries taken from it (old).
RenderTick(cycles) ==
    /\ drv.gpu_fed + cycles <= MaxRenderCycles
    /\ \E r \in {gpuTick(gpu, Bus, cycles)} :
       \E p \in {gpuRender(gpu, Bus, cycles)} :
         /\ gpu' = [p.gpu EXCEPT !.current_mode = r.gpu.current_mode,
                                 !.mode_cycles = r.gpu.mode_cycles,
                                 !.frame_counter = r.gpu.frame_counter]
         /\ SetBus(r.bus)
         /\ obs' = [Touch(obs, "render_tick") EXCEPT
                      !.pre_mode = gpu.current_mode,
                      !.value = p.peak, !.old = p.pops,
                      !.addr = gpu.pixel_x]
    /\ drv' = [drv EXCEPT !.gpu_fed = @ + cycles, !.gpu_step = cycles]
    /\ UNCHANGED <<cpu, frame>>

RenderNext == \E cycles \in TickSizes : RenderTick(cycles)

RenderSpec == RenderInit /\ [][RenderNext]_vars

----------------------------------------------------------------------------
(* The joypad: keys go down and up while the program selects a key group   *)
(* through P1 and acknowledges the interrupt.                              *)

\* Right (direction group) and A (button group), as handleInput names them
ButtonMasks == { \h01, \h80 }

\* Values the program stores into P1: one group selected, or none
JoypadSelects == { \h10, \h20, \h30 }

\* handleInput: memory->updateJoypadButton(mask, pressed).  History: the
\* key, joypad_state, joypad_select and IF before the call.
JoypadButton(button_mask, pressed) ==
    /\ SetBus(updateJoypadButton(Bus, gpu.current_mode, button_mask, pressed))
    /\ obs' = [Touch(obs, IF pressed THEN "key_down" ELSE "key_up") EXCEPT
                 !.addr = button_mask,
                 !.old = mem.joypad_state,
                 !.value = mem.joypad_select,
                 !.pre = [NoPre EXCEPT
                            !.if_reg = Read(Bus, gpu.current_mode,
                                            IF_REGISTER)]]
    /\ UNCHANGED <<cpu, gpu, frame, drv>>

\* The program selects a key group
JoypadSelect(value) ==
    /\ SetBus(Write(Bus, gpu.current_mode, P1_REGISTER, value))
    /\ obs' = Touch(obs, "write")
    /\ UNCHANGED <<cpu, gpu, frame, drv>>

\* The handler acknowledges: IF is written with 0
JoypadAcknowledge ==
    /\ Bit(Read(Bus, gpu.current_mode, IF_REGISTER), 4) = 1
    /\ SetBus(Write(Bus, gpu.current_mode, IF_REGISTER, \h00))
    /\ obs' = Touch(obs, "write")
    /\ UNCHANGED <<cpu, gpu, frame, drv>>

JoypadNext ==
    \/ \E button_mask \in ButtonMasks, pressed \in BOOLEAN :
         JoypadButton(button_mask, pressed)
    \/ \E value \in JoypadSelects : JoypadSelect(value)
    \/ JoypadAcknowledge

JoypadSpec == PpuInit /\ [][JoypadNext]_vars

----------------------------------------------------------------------------
(* One frame of PPU time from power-on, nothing else running               *)

\* 154 lines of 456 cycles
FrameCycles == CYCLES_SCANLINE * LinesPerFrame

FrameTick(cycles) ==
    /\ frame.elapsed + cycles <= FrameCycles
    /\ \E r \in {gpuTick(gpu, Bus, cycles)} :
       \E ly \in {Read(r.bus, r.gpu.current_mode, LY_REG)} :
         /\ gpu' = r.gpu
         /\ SetBus(r.bus)
         /\ frame' =
              [ elapsed |-> frame.elapsed + cycles,
                vblanks |-> frame.vblanks + (IF r.vblank THEN 1 ELSE 0),
                vblank_ok |-> frame.vblank_ok
                              /\ (r.vblank =>
                                    /\ gpu.current_mode # "VBLANK"
                                    /\ r.gpu.current_mode = "VBLANK"
                                    /\ ly = VBlankStartLine),
                ly_last |-> ly,
                ly_max |-> IF ly > frame.ly_max THEN ly ELSE frame.ly_max,
                ly_inorder |-> frame.ly_inorder
                               /\ ly \in {frame.ly_last,
                                          (frame.ly_last + 1) % LinesPerFrame} ]
    /\ obs' = [Touch(obs, "gpu") EXCEPT !.pre_mode = gpu.current_mode]
    /\ UNCHANGED <<cpu, drv>>

FrameNext == \E cycles \in TickSizes : FrameTick(cycles)

FrameSpec == PpuInit /\ [][FrameNext]_vars

----------------------------------------------------------------------------
(* The Timer on its own: a fresh Timer (system counter 0) whose registers   *)
(* are written through Timer::writeRegister and which is then advanced by   *)
(* Timer::tick, as update_timer and system_tick do.                         *)

\* No timer scenario is advanced beyond this many cycles.
MaxTimerCycles == 40

\* <<TAC, TMA, TIMA, system counter>>: bit 3 source two increments or one
\* increment away from overflow, the same registers with the timer disabled,
\* and the bit 7 and bit 9 sources four cycles before their bit falls.  The
\* counter is the number of cycles the Timer ran before the registers were
\* written.
TimerSetups ==
    { << \h05, \hF0, \hFE, 0 >>, << \h05, \hF0, \hFF, 0 >>,
      << \h01, \hF0, \hFE, 0 >>,
      << \h07, \hF0, \hFE, \h00FC >>, << \h04, \hF0, \hFF, \h03FC >> }

TimerTickSizes == {1, 4}

TimerInit ==
    /\ \E su \in TimerSetups :
         /\ timer = TimerWriteRegister(
                      TimerWriteRegister(
                        TimerWriteRegister(
                          [TimerCtor EXCEPT !.div_counter = su[4],
                                            !.div = su[4] \div 256],
                          TMA_REGISTER, su[2]),
                        TIMA_REGISTER, su[3]),
                      TAC_REGISTER, su[1])
         /\ drv = [DriverInitial EXCEPT !.setup = su]
    /\ LET b == PowerOnBus("add") IN cart = b.cart /\ mem = b.mem
    /\ cpu = CpuReset(CpuCtor)
    /\ gpu = GpuCtor
    /\ obs = ObsInit
    /\ frame = FrameInitial

\* timer->tick(cycles)
TimerTick(cycles) ==
    /\ drv.timer_fed + cycles <= MaxTimerCycles
    /\ \E r \in {timerTick(timer, Bus, gpu.current_mode, cycles)} :
         /\ timer' = r.timer
         /\ cart' = r.bus.cart
         /\ mem' = r.bus.mem
         /\ drv' = [drv EXCEPT !.timer_fed = @ + cycles,
                               !.requests = @ + r.requests]
         \* history: the Timer before the call, the cycle count, the
         \* requests made, and whether the call follows a TIMA write that
         \* found a reload scheduled
         /\ obs' = [Touch(obs, "timer") EXCEPT
                      !.pre = timer, !.value = cycles, !.old = r.requests,
                      !.kind = IF obs.kind = "cancel" THEN "after_cancel"
                               ELSE "none"]
    /\ UNCHANGED <<cpu, gpu, frame>>

\* No timer scenario has more register writes than this.
MaxTimerWrites == 2

\* A DIV reset, a TIMA store, and TAC stores that stop the timer or move
\* it to bit 5, in the middle of a run
TimerWrites ==
    { <<DIV_REGISTER, \h00>>, <<TIMA_REGISTER, \hFE>>,
      <<TAC_REGISTER, \h01>>, <<TAC_REGISTER, \h06>> }

\* Timer::writeRegister called by the program
TimerWrite(addr, value) ==
    /\ drv.writes < MaxTimerWrites
    /\ timer' = TimerWriteRegister(timer, addr, value)
    /\ drv' = [drv EXCEPT !.disturbed = TRUE, !.writes = @ + 1]
    /\ obs' = [Touch(obs, "timer_write") EXCEPT
                 !.pre = timer, !.addr = addr, !.value = value,
                 !.kind = IF addr = TIMA_REGISTER /\ timer.tima_reload_scheduled
                          THEN "cancel" ELSE "none"]
    /\ UNCHANGED <<cart, mem, cpu, gpu, frame>>

TimerNext ==
    \/ \E cycles \in TimerTickSizes : TimerTick(cycles)
    \/ \E w \in TimerWrites : TimerWrite(w[1], w[2])

TimerSpec == TimerInit /\ [][TimerNext]_vars

----------------------------------------------------------------------------
(* A banked cartridge on its own: Cartridge::read and Cartridge::write as   *)
(* the bus calls them for 0x0000-0x7FFF and 0xA000-0xBFFF.                  *)

\* <<controller, ROM size>>: 256 KiB, 512 KiB and 2 MiB images
CartModels ==
    { <<"MBC1", \h80000>>, <<"MBC1", \h200000>>, <<"MBC2", \h40000>>,
      <<"MBC3", \h200000>>, <<"MBC5", \h80000>> }

\* What std::localtime can report when MBC3::updateRTC asks
SystemTimes ==
    { [sec |-> 30, min |-> 15, hour |-> 7, yday |-> 300],
      [sec |-> 31, min |-> 15, hour |-> 7, yday |-> 300] }

\* The history of a cartridge run
CartObsInit ==
    [ last |-> "init", addr |-> 0, value |-> 0,
      ram_before |-> <<>>,   \* RAM contents before the last write
      enable_last |-> <<>>,  \* value of the latest write to 0x0000-0x1FFF
      latch_seq |-> "none" ] \* MBC3: where the writes to 0x6000-0x7FFF stand

CartInit ==
    /\ \E model \in CartModels : \E now \in SystemTimes :
         cart = IF model[1] = "MBC3"
                THEN updateRTC(MbcCtor(model[1], model[2], TRUE, FALSE), now)
                ELSE MbcCtor(model[1], model[2], FALSE, FALSE)
    /\ mem = MemoryBusCtor
    /\ timer = TimerCtor
    /\ cpu = CpuCtor
    /\ gpu = GpuCtor
    /\ obs = CartObsInit
    /\ frame = FrameInitial
    /\ drv = DriverInitial

CartReads == {\h0000, \h3FFF, \h4000, \h7FFF, \hA000, \hA200}

\* cart->read(addr)
CartReadOp(addr) ==
    /\ obs' = [obs EXCEPT !.last = "read", !.addr = addr,
                          !.value = MbcRead(cart, addr), !.ram_before = <<>>]
    /\ UNCHANGED <<cart, mem, timer, cpu, gpu, frame, drv>>

\* The register writes a program makes on each controller: RAM enable and
\* a RAM byte on all of them, then the ROM bank, the upper register or RTC
\* select, and the banking mode or RTC latch
CartWrites(kind) ==
    { <<\h0000, \h1A>>, <<\h0000, \h00>>, <<\hA000, \h5A>> }
    \cup CASE kind = "MBC1" ->
                { <<\h2000, \h00>>, <<\h2000, \hFF>>, <<\h2000, \h20>>,
                  <<\h4000, \h01>>, <<\h4000, \h03>>,
                  <<\h6000, \h01>>, <<\h6000, \h00>> }
           [] kind = "MBC2" ->
                { <<\h0100, \h0A>>, <<\h0100, \h00>>, <<\h2000, \h0A>> }
           [] kind = "MBC3" ->
                { <<\h2000, \h00>>, <<\h4000, \h08>>, <<\h4000, \h00>>,
                  <<\h6000, \h00>>, <<\h6000, \h01>>, <<\h6000, \h05>> }
           [] kind = "MBC5" ->
                { <<\h2000, \h00>>, <<\h2000, \hFF>>,
                  <<\h3000, \h01>>, <<\h3000, \h00>>, <<\h4000, \h01>> }

\* Where a run of writes to the latch register stands after `value`:
\* "zero" after 0x00, "skipped" after 0x00 and one other value, "done" after
\* 0x00 then 0x01, "done_skipping" after 0x00, one other value, then 0x01
LatchSequence(seq, value) ==
    IF value = \h00 THEN "zero"
    ELSE IF value = \h01
        THEN CASE seq = "zero"    -> "done"
               [] seq = "skipped" -> "done_skipping"
               [] OTHER           -> "none"
    ELSE IF seq = "zero" THEN "skipped" ELSE "none"

\* cart->write(addr, value)
CartWriteOp(addr, value) ==
    /\ \E now \in SystemTimes : cart' = MbcWrite(cart, addr, value, now)
    /\ obs' = [obs EXCEPT
                 !.last = "write", !.addr = addr, !.value = value,
                 !.ram_before = cart.ram,
                 !.enable_last = IF addr <= \h1FFF THEN <<value>> ELSE @,
                 !.latch_seq = IF cart.kind = "MBC3"
                                  /\ isInRange(addr, \h6000, \h7FFF)
                               THEN LatchSequence(@, value) ELSE @]
    /\ UNCHANGED <<mem, timer, cpu, gpu, frame, drv>>

CartNext ==
    \/ \E addr \in CartReads : CartReadOp(addr)
    \/ \E w \in CartWrites(cart.kind) : CartWriteOp(w[1], w[2])

CartSpec == CartInit /\ [][CartNext]_vars

----------------------------------------------------------------------------
(* The driver (main.cpp): the frame loop calls system_tick(1) again and     *)
(* again; system_tick runs cpu_step, then GPU::tick(cycles), then           *)
(* Timer::tick(cycles) on the Timer the driver holds.                       *)

\* init_system followed by initializeSystem.  Whether the second Timer
\* reuses the storage of the deleted first one is not determined by the
\* program.
DriverInit ==
    /\ \E rom \in RomNames :
         LET b == PowerOnBus(rom)
         IN cart = b.cart /\ mem = b.mem /\ timer = b.timer
    /\ cpu = CpuReset(CpuCtor)
    /\ gpu = GpuCtor
    /\ obs = ObsInit
    /\ frame = FrameInitial
    /\ \E aliased \in BOOLEAN :
         drv = [DriverInitial EXCEPT !.aliased = aliased]

\* The cycle count the frame loop passes to system_tick
SystemTickCycles == 1

\* system_tick(cycles)
SystemTick(cycles) ==
    /\ cpu.cycles < MaxCycles
    /\ \E returned \in BOOLEAN :
       \E r \in {tick(cpu, Bus, gpu.current_mode, returned)} :
       \E g \in {gpuTick(gpu, r.bus, cycles)} :
       \E t \in {timerTick(IF drv.aliased THEN g.bus.timer ELSE drv.timer,
                            g.bus, g.gpu.current_mode, cycles)} :
         /\ cpu' = r.cpu
         /\ gpu' = g.gpu
         /\ cart' = t.bus.cart
         /\ mem' = t.bus.mem
         /\ timer' = IF drv.aliased THEN t.timer ELSE g.bus.timer
         /\ drv' = [drv EXCEPT
               !.timer = IF drv.aliased THEN @ ELSE t.timer,
               !.timer_fed = @ + (cycles % 256),
               !.gpu_fed = @ + cycles,
               !.timer_step = cycles % 256,
               !.gpu_step = cycles,
               !.requests = @ + t.requests]
         /\ obs' = [Touch(obs, "system") EXCEPT
               !.kind = r.kind,
               !.pre = [NoPre EXCEPT !.ime = cpu.ime, !.pc = cpu.pc,
                                     !.sp = cpu.sp, !.halted = cpu.halted,
                                     !.pending_cycles = cpu.pending_cycles,
                                     !.cycles = cpu.cycles],
               !.ndispatch = IF r.kind = "dispatch" THEN @ + 1 ELSE @]
    /\ UNCHANGED frame

DriverNext ==
    \/ SystemTick(SystemTickCycles)
    \/ \E w \in SetupWrites : SetupWrite(w[1], w[2])

DriverSpec == DriverInit /\ [][DriverNext]_vars

----------------------------------------------------------------------------
(* CPU::reset called on a CPU in use: a CPU is constructed, its registers   *)
(* are set or changed by a running program, and reset() is called.          *)

ResetInit ==
    /\ \E rom \in RomNames :
         LET b == PowerOnBus(rom)
         IN cart = b.cart /\ mem = b.mem /\ timer = b.timer
    /\ cpu = CpuCtor
    /\ gpu = GpuCtor
    /\ obs = ObsInit
    /\ frame = FrameInitial
    /\ drv = DriverInitial

RegisterValues == {\h0000, \hC000}

\* setRegisterAF, setRegisterBC, setRegisterDE, setRegisterHL, setPC and
\* setSP (cpu.hpp) called with one value
SetRegisters(value) ==
    /\ Setup
    /\ cpu' = [cpu EXCEPT !.af = value, !.bc = value, !.de = value,
                          !.hl = value, !.pc = value, !.sp = value]
    /\ obs' = Touch(obs, "setup")
    /\ UNCHANGED <<cart, mem, timer, gpu, frame, drv>>

\* cpu.reset()
Reset ==
    /\ cpu' = CpuReset(cpu)
    /\ obs' = [Touch(obs, "reset") EXCEPT
                 !.pre = [NoPre EXCEPT !.pc = cpu.pc, !.sp = cpu.sp,
                                       !.ime = cpu.ime, !.halted = cpu.halted,
                                       !.pending_cycles = cpu.pending_cycles,
                                       !.cycles = cpu.cycles]]
    /\ UNCHANGED <<cart, mem, timer, gpu, frame, drv>>

ResetNext ==
    \/ CpuTick
    \/ \E value \in RegisterValues : SetRegisters(value)
    \/ \E w \in SetupWrites : SetupWrite(w[1], w[2])
    \/ Reset

ResetSpec == ResetInit /\ [][ResetNext]_vars

----------------------------------------------------------------------------
(* Properties of the CPU, checked under Spec                               *)

\* The instruction whose last cycle the last CPU::tick ran
StepCompleted ==
    /\ obs.last = "cpu"
    /\ obs.kind \in {"fetch", "pending"}
    /\ cpu.pending_cycles = 0

\* The interrupts pending before the last CPU::tick
PendingBefore == ActiveInterrupts(obs.pre.if_reg, obs.pre.ie_reg)

\* Index of the lowest set bit among bits 0..4
LowestPending(active) ==
    CHOOSE i \in 0..4 :
        Bit(active, i) = 1 /\ \A j \in 0..4 : j < i => Bit(active, j) = 0

\* C1: when an instruction has been fetched and run to completion without
\* an interrupt dispatch in between, the cycle counter has grown by what the
\* tables prescribe for the path the instruction took: cycles, or alt_cycles
\* for a branch not taken.
C1_StepCycles ==
    (StepCompleted /\ obs.ndispatch = obs.step_ndispatch) =>
        cpu.cycles - obs.step_start = obs.step_cost

\* C2: bits 0-3 of F are zero in every state, whether the last operation
\* was an instruction or a write to AF through the register interface.
C2_FlagLowNibble == RegF(cpu) % 16 = 0

\* C3: a tick entered with IME set and IF & IE & 0x1F non-zero clears IME,
\* clears the lowest pending bit i in IF, pushes the PC it was entered with
\* (SP goes down by 2, high byte above low byte) and leaves PC at
\* 0x0040 + 8*i.
C3_InterruptDispatch ==
    (obs.last = "cpu" /\ obs.pre.ime /\ PendingBefore # 0) =>
        LET i == LowestPending(PendingBefore)
        IN /\ ~cpu.ime
           /\ Read(Bus, gpu.current_mode, IF_REGISTER)
                = BitClear(obs.pre.if_reg, 2 ^ i)
           /\ cpu.sp = U16(obs.pre.sp + 65534)
           /\ Read(Bus, gpu.current_mode, cpu.sp) = obs.pre.pc % 256
           /\ Read(Bus, gpu.current_mode, U16(cpu.sp + 1))
                = obs.pre.pc \div 256
           /\ cpu.pc = \h0040 + 8 * i

\* C3 happens: the timer interrupt (bit 2) is dispatched while VBlank is not
\* pending, in the middle of a program.
C3_TimerDispatched ==
    /\ obs.last = "cpu" /\ obs.pre.ime /\ PendingBefore # 0
    /\ LowestPending(PendingBefore) = 2
    /\ obs.pre.pc # EntryPoint
    /\ cpu.pc = \h0050

\* C4: every interrupt dispatch adds exactly 20 to the cycle counter, also
\* the one that wakes a halted CPU (IME=1, IE=0x01, IF bit 0 raised).
C4_DispatchCycles ==
    (obs.last = "cpu" /\ obs.kind = "dispatch") =>
        cpu.cycles = obs.pre.cycles + 20

\* C5: a tick entered halted with IF & IE & 0x1F non-zero leaves the CPU
\* not halted, whatever IME is.
C5_HaltWakes ==
    (obs.last = "cpu" /\ obs.pre.halted /\ PendingBefore # 0) => ~cpu.halted

\* C6: the program 3E 05 C6 03 00 at 0x0100, started with A = 0 and not
\* interrupted, has after three instructions A = 0x08, Z = N = H = C = 0,
\* PC = 0x0104 and 20 cycles on the counter.
C6_AddProgram ==
    ( /\ cart.rom = "add"
      /\ obs.af_set = << \h0000 >>
      /\ obs.ndispatch = 0
      /\ obs.ninstr = 3
      /\ StepCompleted ) =>
        /\ RegA(cpu) = \h08
        /\ ~getFlag(cpu, FLAG_Z) /\ ~getFlag(cpu, FLAG_N)
        /\ ~getFlag(cpu, FLAG_H) /\ ~getFlag(cpu, FLAG_C)
        /\ cpu.pc = \h0104
        /\ cpu.cycles = 20

----------------------------------------------------------------------------
(* Properties of the PPU and of the bus, checked under FrameSpec (C7) and  *)
(* PpuSpec (C8, C9, C10)                                                   *)

\* C7: after 70224 cycles of PPU time from power-on with the LCD on,
\* exactly one VBlank interrupt has been requested, it was requested on
\* entering Mode 1 with LY = 144, and LY has gone through 0..153 in order.
C7_OneFrame ==
    frame.elapsed = FrameCycles =>
        /\ frame.vblanks = 1
        /\ frame.vblank_ok
        /\ frame.ly_inorder
        /\ frame.ly_max = LinesPerFrame - 1

\* C8: after a GPU::tick that changed the mode, STAT bits 1:0 hold the
\* number of the new mode.
C8_StatShowsMode ==
    (obs.last = "gpu" /\ obs.pre_mode # gpu.current_mode) =>
        Read(Bus, gpu.current_mode, STAT_REG) % 4
            = ModeNumber(gpu.current_mode)

\* C8 happens: a tick moved the PPU from OAM scan to pixel transfer.
C8_EnteredTransfer ==
    /\ obs.last = "gpu"
    /\ obs.pre_mode = "OAM"
    /\ gpu.current_mode = "TRANSFER"
    /\ Read(Bus, gpu.current_mode, STAT_REG) % 4 = 3

\* C9: once the PPU has run with LCDC bit 7 clear, LY reads 0 and STAT
\* bits 1:0 read 0 (HBlank).
C9_LcdOff ==
    (obs.last = "gpu" /\ ~isLCDEnabled(Bus, gpu.current_mode)) =>
        /\ Read(Bus, gpu.current_mode, LY_REG) = 0
        /\ Read(Bus, gpu.current_mode, STAT_REG) % 4 = 0

\* VRAM in Mode 3, OAM in Modes 2 and 3
Blocked(addr, mode) ==
    \/ isInRange(addr, \h8000, \h9FFF) /\ mode = "TRANSFER"
    \/ isInRange(addr, \hFE00, \hFE9F) /\ mode \in {"OAM", "TRANSFER"}

\* C10: with the LCD on, a read of VRAM in Mode 3 or of OAM in Modes 2-3
\* returns 0xFF and a write there leaves the byte as it was; after a write
\* to the DMA register the 160 OAM bytes equal the source page, in any mode.
C10_Gating ==
    /\ ( /\ obs.last = "read"
         /\ isLCDEnabled(Bus, gpu.current_mode)
         /\ Blocked(obs.addr, gpu.current_mode) ) => obs.value = \hFF
    /\ ( /\ obs.last = "write"
         /\ isLCDEnabled(Bus, gpu.current_mode)
         /\ Blocked(obs.addr, gpu.current_mode) ) =>
           Stored(mem, obs.addr) = obs.old
    /\ (obs.last = "write" /\ obs.addr = DMA_REG) =>
           \A i \in 0..159 :
               mem.oam[i] = Read(Bus, gpu.current_mode,
                                 U16(obs.value * 256 + i))

----------------------------------------------------------------------------
(* Properties of the Timer, checked under TimerSpec                         *)

\* C11: a Timer started with the system counter at 0, TAC = 0x05,
\* TMA = 0xF0 and TIMA = 0xFE, and advanced by 32 cycles with no register
\* written in between, has TIMA = 0xF0 and has raised IF bit 2 exactly once.
C11_TimaReload ==
    ( /\ drv.setup = << \h05, \hF0, \hFE, 0 >>
      /\ ~drv.disturbed
      /\ drv.timer_fed = 32 ) =>
        /\ timer.tima = \hF0
        /\ drv.requests = 1

\* The timer input of Timer t: TAC bit 2 and the system-counter bit that
\* TAC bits 0-1 select (00 bit 9, 01 bit 3, 10 bit 5, 11 bit 7)
TimerInput(t) ==
    /\ Bit(t.tac, 2) # 0
    /\ Bit(t.div_counter,
           CASE t.tac % 4 = 0 -> 9 [] t.tac % 4 = 1 -> 3
             [] t.tac % 4 = 2 -> 5 [] t.tac % 4 = 3 -> 7) # 0

\* The last operation was one T-cycle of Timer::tick or a write to DIV or
\* TAC, and TIMA is what it was before (or, if `reloads`, TMA when that
\* cycle began with a reload scheduled), plus 1 exactly if the timer input
\* went from 1 to 0
TimaFollowsEdges(reloads) ==
    LET reload == reloads /\ obs.last = "timer"
                  /\ obs.pre.tima_reload_scheduled
        base == IF reload THEN obs.pre.tma ELSE obs.pre.tima
        fell == TimerInput(obs.pre) /\ ~TimerInput(timer)
    IN ( \/ obs.last = "timer" /\ obs.value = 1
         \/ obs.last = "timer_write"
            /\ obs.addr \in {DIV_REGISTER, TAC_REGISTER} )
       => timer.tima = IF fell THEN U8(base + 1) ELSE base

\* C27 as stated: ticking and DIV/TAC writes increment TIMA exactly when
\* the timer input goes from 1 to 0, and change TIMA in no other case.
C27_OnlyEdgesChangeTima == TimaFollowsEdges(FALSE)

\* C27 amended: ticking and DIV/TAC writes increment TIMA exactly when the
\* timer input goes from 1 to 0, whether the counter advanced, DIV was
\* written or TAC was written; the only other change of TIMA they make is
\* the reload from TMA in the T-cycle after an overflow.
C27_EdgeIncrements == TimaFollowsEdges(TRUE)

\* A DIV write that reset the counter while the input was 1, and TIMA
\* incremented by it
C27_DivWriteIncrements ==
    /\ obs.last = "timer_write" /\ obs.addr = DIV_REGISTER
    /\ TimerInput(obs.pre)
    /\ timer.tima = U8(obs.pre.tima + 1)

\* C28: when TIMA overflows from 0xFF to 0x00 the reload is delayed by one
\* T-cycle.  In the cycle (or DIV/TAC write) of the overflow TIMA becomes
\* 0x00, reads 0x00, and no interrupt is requested; the next T-cycle loads
\* TIMA from TMA and sets IF bit 2; a T-cycle that does not follow an
\* overflow requests nothing, so each overflow is answered once.  (If the
\* timer input falls in the very cycle of the reload, the value loaded from
\* TMA is incremented in that cycle as in any other.)
C28_DelayedReload ==
    LET cycle == obs.last = "timer" /\ obs.value = 1
        write == obs.last = "timer_write"
                 /\ obs.addr \in {DIV_REGISTER, TAC_REGISTER}
        overflowed == obs.pre.tima = \hFF /\ timer.tima = \h00
    IN /\ ( (cycle \/ write) /\ overflowed )
            => /\ timer.tima_reload_scheduled
               /\ TimerReadRegister(timer, TIMA_REGISTER) = \h00
               /\ cycle => obs.old = 0
       /\ ( cycle /\ obs.pre.tima_reload_scheduled )
            => /\ timer.tima =
                      IF TimerInput(obs.pre) /\ ~TimerInput(timer)
                      THEN U8(obs.pre.tma + 1) ELSE obs.pre.tma
               /\ ~timer.tima_reload_scheduled
               /\ Bit(Read(Bus, gpu.current_mode, IF_REGISTER), 2) = 1
               /\ obs.old = 1
       /\ ( cycle /\ ~obs.pre.tima_reload_scheduled ) => obs.old = 0

\* The T-cycle after an overflow: TIMA was 0x00 and has been reloaded
C28_Reloaded ==
    /\ obs.last = "timer" /\ obs.value = 1
    /\ obs.pre.tima_reload_scheduled /\ obs.pre.tima = \h00
    /\ timer.tima = \hF0 /\ obs.old = 1

\* C29: a write to TIMA made between its overflow and the pending reload
\* cancels the reload: TIMA holds the written value, and the next call of
\* Timer::tick neither replaces it by TMA nor requests the interrupt.  (If
\* the timer input falls during that call, the written value is incremented
\* as at any other time.)
C29_WriteCancelsReload ==
    /\ ( obs.last = "timer_write" /\ obs.kind = "cancel" )
         => timer.tima = obs.value /\ ~timer.tima_reload_scheduled
    /\ ( obs.last = "timer" /\ obs.kind = "after_cancel" )
         => /\ timer.tima = IF TimerInput(obs.pre) /\ ~TimerInput(timer)
                            THEN U8(obs.pre.tima + 1) ELSE obs.pre.tima
            /\ obs.old = 0

\* TIMA overflowed, 0xFE was written to it before the reload, and the Timer
\* was ticked again: TIMA is still 0xFE, not TMA
C29_WrittenValueKept ==
    /\ obs.last = "timer" /\ obs.kind = "after_cancel"
    /\ timer.tima = \hFE /\ timer.tma = \hF0

----------------------------------------------------------------------------
(* Properties of the banked cartridges, checked under CartSpec              *)

\* C12: on MBC1 in simple banking mode a read of an address in
\* 0x0000-0x3FFF returns the ROM byte at that offset of bank 0, whatever
\* the ROM-bank and upper-bank registers hold.
C12_Bank0Fixed ==
    ( /\ cart.kind = "MBC1" /\ ~cart.mode_select
      /\ obs.last = "read" /\ obs.addr <= \h3FFF ) =>
        obs.value = RomImage(obs.addr)

\* C12 happens: the last byte of bank 0 is read in simple mode while the
\* upper register holds 3 and the ROM-bank register holds 0x1F.
C12_Bank0ReadWithBanksSet ==
    /\ cart.kind = "MBC1" /\ ~cart.mode_select
    /\ cart.ram_bank = 3 /\ cart.rom_bank = \h1F
    /\ obs.last = "read" /\ obs.addr = \h3FFF
    /\ obs.value = RomImage(\h3FFF)

\* The bank number a write of `value` to the ROM-bank register asks for,
\* given the upper register
RequestedBank(c, value) == 32 * c.ram_bank + (value % 32)

LatchSequenceDone ==
    /\ cart.kind = "MBC3" /\ cart.rtc
    /\ obs.last = "write" /\ isInRange(obs.addr, \h6000, \h7FFF)
    /\ obs.latch_seq \in {"done", "done_skipping"}

\* C15: on MBC3 with RTC, once 0x00 and then 0x01 have been written to
\* 0x6000-0x7FFF, a value other than these written between the two being
\* passed over, the latched registers equal the current RTC registers.
C15_LatchSequence == LatchSequenceDone => cart.latch_regs = cart.rtc_regs

\* C16: on every controller RAM is enabled exactly when the latest write to
\* 0x0000-0x1FFF had low nibble 0xA; while it is disabled a read of
\* 0xA000-0xBFFF returns 0xFF and a write there leaves the RAM as it was.
C16_RamGate ==
    /\ cart.ram_enabled <=>
         (obs.enable_last # <<>> /\ obs.enable_last[1] % 16 = \h0A)
    /\ ( /\ ~cart.ram_enabled
         /\ obs.last = "read" /\ isInRange(obs.addr, \hA000, \hBFFF) ) =>
           obs.value = \hFF
    /\ ( /\ ~cart.ram_enabled
         /\ obs.last = "write" /\ isInRange(obs.addr, \hA000, \hBFFF) ) =>
           cart.ram = obs.ram_before

----------------------------------------------------------------------------
(* Invalid opcodes and EI (cpu.cpp, cpu_instructions.cpp)                  *)

\* C17: executing one of the opcodes 0xD3, 0xDB, 0xDD, 0xE3, 0xE4, 0xEB,
\* 0xEC, 0xED, 0xF4, 0xFC, 0xFD is fatal: once CPU::tick has fetched and
\* executed such an opcode the CPU is stopped, and no instruction is fetched
\* after it.
C17_ErrIsFatal ==
    obs.since_err >= 0 => cpu.stopped /\ obs.since_err = 0

\* C18: EI does not set IME itself.  When EI is executed with ime off, ime is
\* still off once EI has executed, and an interrupt that is dispatched next
\* is dispatched only after at least one further instruction was fetched.
C18_EiDelay ==
    /\ ( obs.kind = "fetch" /\ cpu.current_opcode = \hFB /\ ~obs.pre.ime )
         => ~cpu.ime
    /\ obs.ei_dispatch # 0

----------------------------------------------------------------------------
(* The driver loop, checked under DriverSpec                               *)

\* C19: after every driver iteration the Timer and the PPU have been handed
\* as many T-cycles as the CPU's cycle counter advanced in that iteration,
\* whatever the iteration did (an instruction cycle, an interrupt
\* dispatch, an idle cycle in HALT), so the totals handed to the Timer and
\* to the PPU equal the CPU's cycle counter.
C19_SameCycles ==
    obs.last = "system" =>
      /\ drv.timer_step = cpu.cycles - obs.pre.cycles
      /\ drv.gpu_step = cpu.cycles - obs.pre.cycles
      /\ drv.timer_fed = cpu.cycles
      /\ drv.gpu_fed = cpu.cycles

----------------------------------------------------------------------------
(* Power-up state, checked under ResetSpec                                 *)

\* C20: immediately after construction and immediately after reset() the
\* registers hold PC=0x0100, SP=0xFFFE, AF=0x01B0, BC=0x0013, DE=0x00D8 and
\* HL=0x014D.
C20_PostBoot ==
    obs.last \in {"init", "reset"} =>
      /\ cpu.pc = \h0100 /\ cpu.sp = \hFFFE
      /\ cpu.af = \h01B0 /\ cpu.bc = \h0013
      /\ cpu.de = \h00D8 /\ cpu.hl = \h014D

\* reset() called on a CPU whose PC and SP had left their power-up values
\* after the program had run
C20_ResetOfUsedCpu ==
    /\ obs.last = "reset"
    /\ obs.pre.cycles > 0
    /\ obs.pre.pc # \h0100 /\ obs.pre.sp # \hFFFE

\* C21: in the state after construction and after reset() IME is false, so
\* no interrupt is dispatched before the program has executed an
\* instruction (EI or RETI) that enables it.
C21_ImeOffAtBoot ==
    /\ obs.last \in {"init", "reset"} => ~cpu.ime
    /\ obs.ndispatch > 0 => obs.ninstr > 0

----------------------------------------------------------------------------
(* Fetch and decode, checked under Spec                                    *)

\* C22: for an instruction that does not transfer control the opcode is
\* read at PC, an immediate operand is read from the bytes that follow the
\* opcode directly (low byte first), and afterwards PC is the old PC plus
\* the encoded length of the instruction: 1, 2 or 3 bytes.
C22_FetchLength ==
    LET instr == instructions(cpu.current_opcode)
        length == IF instr.addr_mode \in {"R_D8", "MR_D8", "D8", "R_A8", "A8_R"}
                    THEN 2
                  ELSE IF instr.addr_mode \in
                            {"R_D16", "D16", "D16_R", "A16_R", "R_A16"}
                    THEN 3
                  ELSE 1
        operand == IF length = 2
                     THEN Read(Bus, gpu.current_mode, U16(obs.pre.pc + 1))
                   ELSE Read(Bus, gpu.current_mode, U16(obs.pre.pc + 1))
                        + 256 * Read(Bus, gpu.current_mode, U16(obs.pre.pc + 2))
    IN ( /\ obs.last = "cpu" /\ obs.kind = "fetch"
         /\ instr.type \notin {"JP", "JR", "CALL", "RET", "RETI", "RST"} )
       => /\ cpu.current_opcode = Read(Bus, gpu.current_mode, obs.pre.pc)
          /\ cpu.pc = U16(obs.pre.pc + length)
          /\ length > 1 => cpu.immediate_value = operand

\* C23: a conditional JR, JP, CALL or RET whose condition does not hold on
\* the current flags transfers no control: PC continues at the next
\* instruction, SP is unchanged, and the step costs the entry's alt cycles.
\* (The other half, that it transfers control when the condition holds, is
\* not part of this formula.)
C23_ConditionFails ==
    LET instr == instructions(cpu.current_opcode)
        holds == CASE instr.cond = "NZ" -> ~getFlag(cpu, FLAG_Z)
                   [] instr.cond = "Z"  -> getFlag(cpu, FLAG_Z)
                   [] instr.cond = "NC" -> ~getFlag(cpu, FLAG_C)
                   [] instr.cond = "C"  -> getFlag(cpu, FLAG_C)
                   [] OTHER -> TRUE
        length == IF instr.type = "RET" THEN 1
                  ELSE IF instr.type = "JR" THEN 2 ELSE 3
    IN ( /\ obs.last = "cpu" /\ obs.kind = "fetch"
         /\ instr.type \in {"JP", "JR", "CALL", "RET"}
         /\ instr.cond # "NONE" /\ ~holds )
       => /\ cpu.pc = U16(obs.pre.pc + length)
          /\ cpu.sp = obs.pre.sp
          /\ cpu.pending_cycles + 1 = instr.alt_cycles

\* C24: when the fetched opcode is 0xCB the CPU reads the byte that follows
\* it, advances PC past that byte and executes the CB-table entry the byte
\* indexes.  For the entry RLC B this means: N and H are cleared and Z tells
\* whether B is 0 afterwards.
C24_CbPrefix ==
    LET second == Read(Bus, gpu.current_mode, U16(obs.pre.pc + 1))
        entry == cb_instructions(second)
    IN ( obs.last = "cpu" /\ obs.kind = "fetch" /\ cpu.current_opcode = \hCB )
       => /\ cpu.immediate_value % 256 = second
          /\ cpu.pc = U16(obs.pre.pc + 2)
          /\ ( entry.type = "RLC" /\ entry.reg1 = "B" )
               => /\ ~getFlag(cpu, FLAG_N) /\ ~getFlag(cpu, FLAG_H)
                  /\ getFlag(cpu, FLAG_Z) = (getRegister8Bit(cpu, "B") = 0)

\* C25: when HALT executes with IME off and an interrupt pending and enabled
\* (IF & IE & 0x1F # 0) the CPU does not enter the halted state, and the
\* next fetch is marked to leave PC where it is, so that the opcode after
\* HALT is fetched twice.
C25_HaltBug ==
    ( /\ obs.last = "cpu" /\ obs.kind = "fetch" /\ cpu.current_opcode = \h76
      /\ ~obs.pre.ime
      /\ ActiveInterrupts(obs.pre.if_reg, obs.pre.ie_reg) # 0 )
    => ~cpu.halted /\ cpu.halt_bug_active

\* C26: an interrupt is dispatched only at an instruction boundary: the
\* tick that dispatches finds no cycle of the previously fetched
\* instruction outstanding, and leaves none to be spent before the first
\* instruction of the handler is fetched.
C26_DispatchAtBoundary ==
    ( obs.last = "cpu" /\ obs.kind = "dispatch" )
    => obs.pre.pending_cycles = 0 /\ cpu.pending_cycles = 0

----------------------------------------------------------------------------
(* STAT interrupt, checked under StatSpec                                  *)

\* C30: IF bit 1 is raised only when the combined STAT line goes from 0 to
\* 1: a call of GPU::tick that finds IF bit 1 clear and leaves it set had
\* the line low before it and has it high after it.
C30_StatRisingEdge ==
    ( /\ obs.last = "stat_tick"
      /\ Bit(obs.value, 1) = 0
      /\ Bit(Read(Bus, gpu.current_mode, IF_REGISTER), 1) = 1 )
    => obs.old = 0 /\ StatLine(Bus, gpu.current_mode)

----------------------------------------------------------------------------
(* Properties of the STAT register, checked under StatSpec                 *)

\* C31: a store to STAT (0xFF41) by the program changes only bits 3-6:
\* bits 2:0 are as they were before the store, so bits 1:0 still show the
\* PPU mode whenever they did before, and IF is as it was.
C31_StatWriteKeepsLowBits ==
    obs.last = "stat_write" =>
        LET stat == Read(Bus, gpu.current_mode, STAT_REG)
        IN /\ stat % 8 = obs.old % 8
           /\ ( obs.old % 4 = ModeNumber(gpu.current_mode)
                 => stat % 4 = ModeNumber(gpu.current_mode) )
           /\ Read(Bus, gpu.current_mode, IF_REGISTER) = obs.pre.if_reg

----------------------------------------------------------------------------
(* Properties of the scanline, checked under LineSpec                      *)

\* C32: a scanline that began in Mode 2 and ran with the LCD on lasts 456
\* cycles up to the start of the next line, 80 of them in Mode 2 and
\* between 172 and 289 in Mode 3, also when SCX, LCDC or OAM are written
\* while it is in progress.
C32_LineLength ==
    obs.line.done # <<>> =>
        /\ obs.line.done[1] = CYCLES_SCANLINE
        /\ obs.line.done[2] = CYCLES_OAM
        /\ obs.line.done[3] \in 172..289

\* C33: the first GPU::tick after LCDC bit 7 was set again finds the PPU at
\* the beginning of line 0: afterwards it is in Mode 2, as many cycles into
\* the line as the call handed over, with LY = 0.
C33_LcdOnRestarts ==
    (obs.last = "line_tick" /\ obs.kind = "after_lcd_on") =>
        /\ gpu.current_mode = "OAM"
        /\ gpu.mode_cycles = drv.gpu_step
        /\ Read(Bus, gpu.current_mode, LY_REG) = 0

----------------------------------------------------------------------------
(* Properties of the renderer, checked under RenderSpec                    *)

\* C34: after the OAM scan for line L, with sprites enabled, the selected
\* sprites are the first ten, in OAM order, of those whose Y byte satisfies
\* Y <= L + 16 < Y + h, h being 16 if LCDC bit 2 is set and 8 otherwise;
\* sprites with Y < 16 are among them.
C34_OamScan ==
    ( /\ obs.last = "render_tick"
      /\ obs.pre_mode = "OAM" /\ gpu.current_mode = "TRANSFER"
      /\ BitAnd(Read(Bus, gpu.current_mode, LCDC_REG), \h02) # 0 ) =>
        LET L == Read(Bus, gpu.current_mode, LY_REG)
            h == IF BitAnd(Read(Bus, gpu.current_mode, LCDC_REG), \h04) # 0
                 THEN 16 ELSE 8
            matches == {i \in 0..39 : /\ L + 16 >= mem.oam[4 * i]
                                      /\ L + 16 < mem.oam[4 * i] + h}
            first == {i \in matches :
                        Cardinality({j \in matches : j < i}) < 10}
        IN { gpu.visible_sprites[k].oam_idx :
               k \in 1..Len(gpu.visible_sprites) } = first

\* C39: the background FIFO never holds more than 16 entries, neither
\* between calls of GPU::tick nor at any point of GPU::processScanline, and
\* every pixel the call drew was taken from the FIFO: no pixel is drawn
\* from an empty FIFO.
C39_FifoBounded ==
    /\ Len(gpu.bg_fifo) <= 16
    /\ obs.last = "render_tick" =>
          /\ obs.value <= 16
          /\ obs.old = gpu.pixel_x - (IF obs.pre_mode = "TRANSFER"
                                      THEN obs.addr ELSE gpu.pixel_x)

\* C39 happens: a call drew the 160 pixels of a line through the FIFO, which
\* held eight entries at some point.
C39_LineDrawn ==
    /\ obs.last = "render_tick" /\ obs.pre_mode = "TRANSFER"
    /\ obs.old = 160 /\ gpu.pixel_x = 160
    /\ obs.value >= 8

----------------------------------------------------------------------------
(* Properties of the joypad, checked under JoypadSpec                      *)

\* C35: a call of updateJoypadButton sets IF bit 4 that was clear only if
\* the key goes from released to pressed and its group is selected in P1
\* (bit 4 clear for the direction keys, bit 5 clear for the buttons).
C35_JoypadRequest ==
    ( /\ obs.last \in {"key_down", "key_up"}
      /\ Bit(obs.pre.if_reg, 4) = 0
      /\ Bit(Read(Bus, gpu.current_mode, IF_REGISTER), 4) = 1 ) =>
        /\ obs.last = "key_down"
        /\ BitAnd(obs.old, obs.addr) # 0
        /\ IF obs.addr < 16 THEN Bit(obs.value, 4) = 0
                            ELSE Bit(obs.value, 5) = 0

----------------------------------------------------------------------------
(* Single instructions: a ROM image holding one RST or one LD through HL   *)
(* at the entry point, run from register and memory contents the harness   *)
(* sets before the first tick.                                             *)

HLValues == {\hC000, \hC1FF}

\* CPU::setRegisterHL (cpu.hpp)
SetRegisterHL(value) ==
    /\ Setup
    /\ cpu' = [cpu EXCEPT !.hl = value]
    /\ obs' = Touch(obs, "setup")
    /\ UNCHANGED <<cart, mem, timer, gpu, frame, drv>>

InstrPokes == { <<\hC000, \h5A>>, <<\hC1FF, \hA5>> }

\* MemoryBus::write called by the harness on work RAM
InstrPoke(addr, value) ==
    /\ Setup
    /\ SetBus(Write(Bus, gpu.current_mode, addr, value))
    /\ obs' = Touch(obs, "setup")
    /\ UNCHANGED <<cpu, gpu, frame, drv>>

\* cpu_step in main.cpp: one call of CPU::tick, observed with the registers
\* the instruction started from
InstrTick ==
    /\ cpu.cycles < MaxCycles
    /\ \E returned \in BOOLEAN :
       \E r \in {tick(cpu, Bus, gpu.current_mode, returned)} :
         /\ cpu' = r.cpu
         /\ SetBus(r.bus)
         /\ obs' = [obs EXCEPT
              !.last = "instr", !.kind = r.kind,
              !.pre = [ pc |-> cpu.pc, sp |-> cpu.sp, hl |-> cpu.hl,
                        a |-> RegA(cpu),
                        at_hl |-> Read(Bus, gpu.current_mode, cpu.hl),
                        bus_kept |-> r.bus = Bus ],
              !.pre_mode = "HBLANK", !.addr = 0, !.value = 0, !.old = 0]
    /\ UNCHANGED <<gpu, frame, drv>>

InstrInit ==
    /\ \E rom \in InstrRomNames :
         LET b == PowerOnBus(rom)
         IN cart = b.cart /\ mem = b.mem /\ timer = b.timer
    /\ cpu = CpuReset(CpuCtor)
    /\ gpu = GpuCtor
    /\ obs = ObsInit
    /\ frame = FrameInitial
    /\ drv = DriverInitial

InstrNext ==
    \/ InstrTick
    \/ \E value \in AFValues : SetRegisterAF(value)
    \/ \E value \in HLValues : SetRegisterHL(value)
    \/ \E w \in InstrPokes : InstrPoke(w[1], w[2])

InstrSpec == InstrInit /\ [][InstrNext]_vars

\* The instruction whose execution the last tick performed
InstrFetched ==
    IF obs.last = "instr" /\ obs.kind = "fetch"
    THEN instructions(cpu.current_opcode)
    ELSE Instruction("NONE", "IMP", "NONE", "NONE", "NONE", 0, 0, 0)

\* C36: the tick that executes the RST of opcode 0xC7 + 8k leaves PC at 8k,
\* SP two lower, and at the new SP the 16-bit address of the byte that
\* follows the RST opcode.
C36_RstPushesAndJumps ==
    InstrFetched.type = "RST" =>
        /\ cpu.pc = cpu.current_opcode - \hC7
        /\ cpu.sp = U16(obs.pre.sp + 65534)
        /\ Read(Bus, gpu.current_mode, cpu.sp)
           + 256 * Read(Bus, gpu.current_mode, U16(cpu.sp + 1))
           = U16(obs.pre.pc + 1)

\* C37: the tick that executes opcode 0x22 or 0x32 leaves the value A had
\* in the byte HL addressed and HL one higher (0x22) or lower (0x32); the
\* tick that executes 0x2A or 0x3A leaves in A the byte HL addressed, HL
\* one higher (0x2A) or lower (0x3A), and memory as it was.
C37_LoadThroughHL ==
    /\ ( /\ obs.last = "instr" /\ obs.kind = "fetch"
         /\ cpu.current_opcode \in {\h22, \h32} ) =>
           /\ Read(Bus, gpu.current_mode, obs.pre.hl) = obs.pre.a
           /\ RegA(cpu) = obs.pre.a
           /\ cpu.hl = IF cpu.current_opcode = \h22
                       THEN U16(obs.pre.hl + 1) ELSE U16(obs.pre.hl + 65535)
    /\ ( /\ obs.last = "instr" /\ obs.kind = "fetch"
         /\ cpu.current_opcode \in {\h2A, \h3A} ) =>
           /\ RegA(cpu) = obs.pre.at_hl
           /\ obs.pre.bus_kept
           /\ cpu.hl = IF cpu.current_opcode = \h2A
                       THEN U16(obs.pre.hl + 1) ELSE U16(obs.pre.hl + 65535)

----------------------------------------------------------------------------
(* The PPU under a main loop that keeps calling GPU::tick: system_tick     *)
(* runs gpu_step on every pass of the loops in main.cpp, so the tick is    *)
(* taken again and again whatever the program stores in between.           *)

\* The stores of the program: one that lengthens Mode 3, LCD off, LCD on
ModeWrites == { <<SCX_REG, \h04>>, <<LCDC_REG, \h11>>, <<LCDC_REG, \h91>> }

MaxModeWrites == 1

ModeWrite(addr, value) == drv.writes < MaxModeWrites /\ LineWrite(addr, value)

ModeNext ==
    \/ \E cycles \in TickSizes : LineTick(cycles)
    \/ \E w \in ModeWrites : ModeWrite(w[1], w[2])

ModeSpec ==
    /\ PpuInit
    /\ [][ModeNext]_vars
    /\ WF_vars(\E cycles \in TickSizes : LineTick(cycles))

\* The mode changes 2 to 3, 3 to 0, 0 to 2, 0 to 1 and 1 to 2
ModeSteps == { <<2, 3>>, <<3, 0>>, <<0, 2>>, <<0, 1>>, <<1, 2>> }

\* LCDC bit 7 as the program reads it
LcdOn == BitAnd(Read(Bus, gpu.current_mode, LCDC_REG), \h80) # 0

\* The LCD is enabled and the PPU is in mode m
InMode(m) == LcdOn /\ gpu.current_mode = m

\* C38: between two states with the LCD enabled the mode either stays or
\* changes along one of 2 to 3, 3 to 0, 0 to 2, 0 to 1, 1 to 2; and from a
\* state with the LCD enabled and the PPU in mode m, a state is reached in
\* which the PPU is in another mode or the LCD has been switched off.
C38_ModeCycle ==
    /\ [][ ( /\ LcdOn /\ LcdOn'
             /\ gpu'.current_mode # gpu.current_mode ) =>
             << ModeNumber(gpu.current_mode),
                ModeNumber(gpu'.current_mode) >> \in ModeSteps ]_vars
    /\ InMode("HBLANK") ~> ~InMode("HBLANK")
    /\ InMode("VBLANK") ~> ~InMode("VBLANK")
    /\ InMode("OAM") ~> ~InMode("OAM")
    /\ InMode("TRANSFER") ~> ~InMode("TRANSFER")

\* Mode 3 has just been left for Mode 0 with the LCD enabled
C38_TransferLeft ==
    /\ obs.last = "line_tick"
    /\ LcdOn
    /\ obs.pre_mode = "TRANSFER"
    /\ gpu.current_mode = "HBLANK"

\* C40: on an MBC1, MBC2 or MBC3 cartridge the ROM-bank register is never
\* 0, whatever has been written to the cartridge; a write to the register
\* whose kept bits (5, 4 and 7 of them) are all 0 leaves it at 1.
C40_RomBankNeverZero ==
    cart.kind \in {"MBC1", "MBC2", "MBC3"} =>
        /\ cart.rom_bank >= 1
        /\ ( /\ obs.last = "write"
             /\ \/ cart.kind = "MBC1" /\ isInRange(obs.addr, \h2000, \h3FFF)
                                      /\ obs.value % 32 = 0
                \/ cart.kind = "MBC2" /\ obs.addr <= \h3FFF
                                      /\ Bit(obs.addr, 8) = 1
                                      /\ obs.value % 16 = 0
                \/ cart.kind = "MBC3" /\ isInRange(obs.addr, \h2000, \h3FFF)
                                      /\ obs.value % 128 = 0 ) =>
               cart.rom_bank = 1

\* An MBC3 ROM-bank register that has just been written with 0
C40_ZeroWritten ==
    /\ cart.kind = "MBC3"
    /\ obs.last = "write" /\ obs.addr = \h2000 /\ obs.value = \h00
    /\ cart.rom_bank = 1

====
